---- MODULE Spec2Model ----
(***************************************************************************)
(* Translation engines of ironpark/tons: the embedded Yzma engine, the     *)
(* process TerminalEngine and the remote Ollama engine, behind the common  *)
(* Translate / TranslateStream contract.                                   *)
(*                                                                         *)
(* One behaviour drives one engine instance (the variable engine, fixed by *)
(* Init).  Calls are goroutines; pc[c] is the position of call c's worker. *)
(* The response channel is unbuffered: a worker at a send position stays   *)
(* there until the consumer receives (Recv).  The backends (model loader   *)
(* and decoder, subprocess, model server) are the environment: every       *)
(* outcome the code can observe from them is a nondeterministic choice.    *)
(*                                                                         *)
(* SpecArgs and SpecLegacy follow a TerminalEngine from its constructor to *)
(* the argument vector of each request's subprocess, for the current       *)
(* engine package and for the older one kept in the tree.                  *)
(*                                                                         *)
(* SpecConfig and SpecReset follow the config package: the live Config,    *)
(* the copy Snapshot returns, the backing arrays of their Args slices, and *)
(* the file Reset saves.                                                   *)
(***************************************************************************)
EXTENDS Naturals, Sequences, FiniteSets, TLC

\* ---------------------------------------------------------------- bounds
NCalls == 2        \* concurrent calls on the Yzma instance
MaxTokens == 2     \* Sampling.MaxTokens of the instance
MaxChunks == 2     \* units (chunks, lines) a backend produces in one call
MaxCloses == 2     \* Close calls made on the instance

Calls == 1..NCalls
Engines == {"yzma", "terminal", "ollama"}
\* TerminalEngine.name values: the structured agent and one raw agent.
TerminalClaudeCode == "claude-code"
TerminalGeminiCLI == "gemini-cli"
Names == {TerminalClaudeCode, TerminalGeminiCLI}

VARIABLES
  engine,      \* the Engine variant of this instance
  name,        \* TerminalEngine.name
  initialized, \* Yzma.initialized
  model,       \* Yzma.model (0: no handle)
  mu,          \* Yzma.mu: 0 free, else the call holding it
  inUse,       \* len(Yzma.inUse), the capacity-one semaphore
  loads,       \* successful llama.ModelLoadFromFile calls so far
  pc,          \* position of each call's worker
  op,          \* "Translate" or "TranslateStream"
  text,        \* Request.Text
  ctxErr,      \* ctx.Err() as the call sees it: "" while the context is live
  out,         \* Responses the consumer has received from the channel
  closed,      \* number of close(ch) executed
  ret,         \* what the call returned to its caller
  msg,         \* Response the worker is sending
  nxt,         \* position after the send
  i,           \* Yzma decode loop counter
  result,      \* strings.Builder of Yzma.Translate / text of streamClaudeCodeOutput
  did,         \* events of the call (observation only)
  active,      \* the calls made on the instance in this behaviour
  proc,        \* the subprocess: "none", "running", "exit0", "exit1", "signaled"
  pipe,        \* units written to stdout and not yet read
  wrote,       \* units the backend has produced so far
  rd,          \* the reader goroutine: "none", "read", "sendData", "sendErr", "done"
  rdVal,       \* the unit the reader is sending, as a sequence of length <= 1
  frees,       \* llama.ModelFree calls so far
  closeRet,    \* the error returned by each Close call of the engine so far
  config,      \* TerminalEngine.config: Command, Args, Timeout (seconds)
  argsCap,     \* cap(config.Args)
  spare,       \* the slot after config.Args in its backing array (argsCap > len)
  req,         \* the Request of each call, <<>> before the call
  prompt,      \* the prompt built for the call
  args,        \* the argument slice built for the call
  argv,        \* cmd.Args of the call's subprocess, <<>> before exec.CommandContext
  strategy,    \* the decoding strategy the streaming call selected
  stage,       \* position of the call in preparing its subprocess
  cfg,         \* the live Config (Args fields hold the address of a backing array)
  snap,        \* the *Config a Snapshot call returned, <<>> before any
  heap,        \* contents of the backing arrays of the Args slices
  disk,        \* content of config.json, <<>> while the file does not exist
  rpc          \* position of the goroutine calling Config.Reset

vars == <<engine, name, initialized, model, mu, inUse, loads, pc, op, text,
          ctxErr, out, closed, ret, msg, nxt, i, result, did, active,
          proc, pipe, wrote, rd, rdVal, frees, closeRet,
          config, argsCap, spare, req, prompt, args, argv, strategy, stage,
          cfg, snap, heap, disk, rpc>>

lifeVars == <<frees, closeRet>>
argVars == <<config, argsCap, spare, req, prompt, args, argv, strategy, stage>>
procVars == <<proc, pipe, wrote, rd, rdVal>>
cfgVars == <<cfg, snap, heap, disk, rpc>>
\* Everything but the configuration.
engineVars == <<engine, name, initialized, model, mu, inUse, loads, pc, op, text,
                ctxErr, out, closed, ret, msg, nxt, i, result, did, active,
                proc, pipe, wrote, rd, rdVal, frees, closeRet,
                config, argsCap, spare, req, prompt, args, argv, strategy, stage>>

yzmaVars == <<initialized, model, mu, inUse, loads>>

\* ------------------------------------------------------------ data model
Response(t, d, e) == [Text |-> t, Done |-> d, Error |-> e]
ZeroResponse == Response("", FALSE, "")
ErrorResponse(err) == Response("", TRUE, err)
\* Variant of ErrorResponsef that leaves Done unset.
ErrorResponsef_NotDone(format, arg) == Response("", FALSE, format \o arg)
ErrorResponsef(format, arg) == Response("", TRUE, format \o arg)
Errorf(format, arg) == format \o arg

Canceled == "context canceled"
DeadlineExceeded == "context deadline exceeded"
CtxErrs == {Canceled, DeadlineExceeded}

NoRet == [returned |-> FALSE, chan |-> FALSE, resp |-> ZeroResponse, err |-> ""]
RetValue(r, e) == [returned |-> TRUE, chan |-> FALSE, resp |-> r, err |-> e]
RetChan == [returned |-> TRUE, chan |-> TRUE, resp |-> ZeroResponse, err |-> ""]

\* The text of the k-th unit a backend produces.
Piece(k) == <<"a", "b\n", "c", "d">>[(k % 4) + 1]

\* The text fragment of the k-th sampled token (llama.TokenToPiece).
TokenToPiece(k) == Piece(k)

\* strings.TrimSpace.
IsSpace(ch) == ch \in {" ", "\n", "\t", "\r"}
RECURSIVE TrimLeft(_)
TrimLeft(str) ==
  IF Len(str) > 0 /\ IsSpace(SubSeq(str, 1, 1))
    THEN TrimLeft(SubSeq(str, 2, Len(str)))
    ELSE str
RECURSIVE TrimRight(_)
TrimRight(str) ==
  IF Len(str) > 0 /\ IsSpace(SubSeq(str, Len(str), Len(str)))
    THEN TrimRight(SubSeq(str, 1, Len(str) - 1))
    ELSE str
TrimSpace(str) == TrimLeft(TrimRight(str))

\* strings.HasPrefix.
HasPrefix(str, prefix) ==
  Len(str) >= Len(prefix) /\ SubSeq(str, 1, Len(prefix)) = prefix

\* strings.NewReplacer(oldnew...).Replace(str): one scan from left to right; at
\* each position the first pair (in argument order) whose old string matches is
\* replaced and the scan goes on after the match, so replaced text is never
\* scanned again.  oldnew is a sequence of <<old, new>> pairs, old non-empty.
RECURSIVE Replace(_, _)
Replace(oldnew, str) ==
  IF str = "" THEN ""
  ELSE LET hits == {k \in 1..Len(oldnew) : HasPrefix(str, oldnew[k][1])}
       IN  IF hits = {}
             THEN SubSeq(str, 1, 1) \o Replace(oldnew, SubSeq(str, 2, Len(str)))
             ELSE LET k == CHOOSE h \in hits : \A g \in hits : h <= g
                  IN  oldnew[k][2] \o
                        Replace(oldnew, SubSeq(str, Len(oldnew[k][1]) + 1, Len(str)))

\* strings.ReplaceAll(str, old, new), old non-empty.
ReplaceAll(str, old, new) == Replace(<<<<old, new>>>>, str)

\* BuildPrompt: one Replacer over the three placeholders.
BuildPrompt(template, txt, sourceLang, targetLang) ==
  Replace(<<<<"{{text}}", txt>>,
            <<"{{source_lang}}", sourceLang>>,
            <<"{{target_lang}}", targetLang>>>>, template)

\* BuildPrompt of the older engine package: three ReplaceAll passes in a row.
BuildPromptLegacy(template, txt, sourceLang, targetLang) ==
  ReplaceAll(ReplaceAll(ReplaceAll(template, "{{text}}", txt),
                        "{{source_lang}}", sourceLang),
             "{{target_lang}}", targetLang)

\* TerminalConfig values.
TerminalConfig(command, argv0, timeout) ==
  [Command |-> command, Args |-> argv0, Timeout |-> timeout]
ZeroConfig == TerminalConfig("", <<>>, 0)

\* predefinedEngines[engineType], and the fallback for an unknown type.
predefinedEngines(engineType) ==
  IF engineType = TerminalClaudeCode
    THEN TerminalConfig("claude",
           <<"--model", "haiku", "--tools", "", "--output-format", "stream-json",
             "--verbose", "--include-partial-messages", "-p">>, 60)
  ELSE IF engineType = TerminalGeminiCLI
    THEN TerminalConfig("gemini", <<"-p">>, 60)
    ELSE TerminalConfig(engineType, <<"-p">>, 60)

\* predefinedEngines of the older engine package.
predefinedEnginesLegacy(engineType) ==
  IF engineType = TerminalClaudeCode THEN TerminalConfig("claude", <<"-p">>, 60)
  ELSE IF engineType = TerminalGeminiCLI THEN TerminalConfig("gemini", <<"-p">>, 60)
  ELSE TerminalConfig(engineType, <<"-p">>, 60)

\* The config package.  A []string field holds the address of its backing array
\* in heap, 0 for a nil slice; len = cap for every slice the package makes.
EngineInternal == "internal"
EngineTypes == {EngineInternal, "terminal-agent", "ollama"}
AgentClaudeCode == "claude-code"
TerminalAgentTypes == {AgentClaudeCode, "gemini-cli", "codex"}
\* The TerminalAgentOption fields of TerminalAgentConfig.
Agents == {"ClaudeCode", "GeminiCLI", "Codex"}
\* Addresses of backing arrays: three for the live Config, three for a copy.
Addrs == 1..6

TerminalAgentOption(executable) == [Executable |-> executable, Args |-> 0, Timeout |-> 60]

Default ==
  [General |-> [Theme |-> "system", Language |-> "system"],
   Engine |->
     [Type |-> EngineInternal,
      Internal |-> [ModelPath |-> "", ContextSize |-> 2048],
      TerminalAgent |->
        [Selected |-> AgentClaudeCode,
         ClaudeCode |-> TerminalAgentOption("claude"),
         GeminiCLI |-> TerminalAgentOption("gemini"),
         Codex |-> TerminalAgentOption("codex")],
      Ollama |-> [Host |-> "http://localhost:11434", Model |-> "llama3.2", Timeout |-> 120]],
   Prompt |-> [Template |-> "DefaultPrompt", SystemPrompt |-> "DefaultSystemPrompt"]]

\* The Config c with the Args of its three agents at the addresses f[a].
WithArgs(c, f) ==
  [c EXCEPT !.Engine.TerminalAgent.ClaudeCode.Args = f["ClaudeCode"],
            !.Engine.TerminalAgent.GeminiCLI.Args = f["GeminiCLI"],
            !.Engine.TerminalAgent.Codex.Args = f["Codex"]]

\* The backing arrays the Config c refers to.
Arrays(c) == {c.Engine.TerminalAgent[a].Args : a \in Agents} \ {0}

\* The Config c as a value: every Args slice replaced by its elements in heap
\* h, a nil slice kept apart from an empty one.  This is also what
\* json.MarshalIndent writes and json.Unmarshal reads back.
Deref(c, h) ==
  WithArgs(c, [a \in Agents |->
                LET p == c.Engine.TerminalAgent[a].Args
                IN  [nil |-> p = 0, elems |-> IF p = 0 THEN <<>> ELSE h[p]]])

\* Addresses for make([]string, n), one per agent, outside the arrays in use.
Fresh(used) ==
  CHOOSE f \in [Agents -> Addrs \ used] : \A a, b \in Agents : a # b => f[a] # f[b]

\* The copy of src that Snapshot and Restore build: the struct fields by value,
\* then every non-nil Args slice replaced by a new slice.
DeepCopy(src, used) ==
  WithArgs(src, [a \in Agents |->
                  IF src.Engine.TerminalAgent[a].Args = 0 THEN 0 ELSE Fresh(used)[a]])

\* The heap after copy was made from src: the new arrays hold the elements of
\* the old ones (copy), arrays no longer referred to are collected.
CopiedHeap(src, copy, keep) ==
  [p \in Addrs |->
     IF p \in keep THEN heap[p]
     ELSE IF \E a \in Agents : copy.Engine.TerminalAgent[a].Args = p
       THEN heap[src.Engine.TerminalAgent[
              CHOOSE a \in Agents : copy.Engine.TerminalAgent[a].Args = p].Args]
       ELSE <<>>]

\* A stdout line of the structured agent as json.Unmarshal into claudeCodeEvent
\* sees it: ok is FALSE for a line that is not JSON (the empty line included).
Event(ok, type, etype, dtype, dtext) ==
  [ok |-> ok, Type |-> type, EventType |-> etype, DeltaType |-> dtype, DeltaText |-> dtext]
DeltaLine(t) == Event(TRUE, "stream_event", "content_block_delta", "text_delta", t)
ResultLine == Event(TRUE, "result", "", "", "")
SystemLine == Event(TRUE, "system", "", "", "")
BadLine == Event(FALSE, "", "", "", "")
OtherEventLine == Event(TRUE, "stream_event", "message_start", "", "")

Terminal(r) == r.Done \/ r.Error # ""

\* No call has been made on the instance.
InitCalls ==
  /\ initialized = FALSE
  /\ model = 0
  /\ mu = 0
  /\ inUse = 0
  /\ loads = 0
  /\ pc = [c \in Calls |-> "idle"]
  /\ op = [c \in Calls |-> ""]
  /\ text = [c \in Calls |-> ""]
  /\ ctxErr = [c \in Calls |-> ""]
  /\ out = [c \in Calls |-> <<>>]
  /\ closed = [c \in Calls |-> 0]
  /\ ret = [c \in Calls |-> NoRet]
  /\ msg = [c \in Calls |-> ZeroResponse]
  /\ nxt = [c \in Calls |-> ""]
  /\ i = [c \in Calls |-> 0]
  /\ result = [c \in Calls |-> ""]
  /\ did = [c \in Calls |-> {}]
  /\ proc = [c \in Calls |-> "none"]
  /\ pipe = [c \in Calls |-> <<>>]
  /\ wrote = [c \in Calls |-> <<>>]
  /\ rd = [c \in Calls |-> "none"]
  /\ rdVal = [c \in Calls |-> <<>>]
  /\ frees = 0
  /\ closeRet = <<>>
  /\ spare = ""
  /\ req = [c \in Calls |-> <<>>]
  /\ prompt = [c \in Calls |-> ""]
  /\ args = [c \in Calls |-> <<>>]
  /\ argv = [c \in Calls |-> <<>>]
  /\ strategy = [c \in Calls |-> ""]
  /\ stage = [c \in Calls |-> "idle"]

\* The configuration is the default one and nothing operates on it.
InitNoConfig ==
  /\ cfg = Default
  /\ snap = <<>>
  /\ heap = [p \in Addrs |-> <<>>]
  /\ disk = <<>>
  /\ rpc = "idle"

\* A freshly constructed engine; a TerminalEngine is one of the predefined agents.
InitInstance ==
  /\ name \in (IF engine = "terminal" THEN Names ELSE {""})
  /\ config = (IF engine = "terminal" THEN predefinedEngines(name) ELSE ZeroConfig)
  /\ argsCap = Len(config.Args)
  /\ InitCalls
  /\ InitNoConfig

\* One call at a time on an instance of any engine.
Init ==
  /\ engine \in Engines
  /\ active = {1}
  /\ InitInstance

\* NCalls concurrent calls on one Yzma instance.
InitConc ==
  /\ engine = "yzma"
  /\ active = Calls
  /\ InitInstance

\* ------------------------------------------------------------- helpers
\* ch <- r, then continue at position p.
Send(c, r, p) ==
  /\ msg' = [msg EXCEPT ![c] = r]
  /\ nxt' = [nxt EXCEPT ![c] = p]
  /\ pc' = [pc EXCEPT ![c] = "send"]

Note(c, e) == did' = [did EXCEPT ![c] = @ \cup e]

\* ------------------------------------------------------------------ Yzma
\* Yzma.Translate up to its first blocking call.
YzmaTranslate(c) ==
  /\ engine = "yzma" /\ c \in active /\ pc[c] = "idle"
  /\ \E t \in {"", "hi"}, e \in {"", Canceled} :
       /\ op' = [op EXCEPT ![c] = "Translate"]
       /\ text' = [text EXCEPT ![c] = t]
       /\ ctxErr' = [ctxErr EXCEPT ![c] = e]
       /\ IF t = ""
            THEN /\ ret' = [ret EXCEPT ![c] = RetValue(Response("", TRUE, ""), "")]
                 /\ pc' = [pc EXCEPT ![c] = "done"]
            ELSE /\ pc' = [pc EXCEPT ![c] = "init"]
                 /\ UNCHANGED ret
  /\ UNCHANGED <<active, cfgVars, lifeVars, argVars, procVars, engine, name, yzmaVars, out, closed, msg, nxt, i, result, did>>

\* Yzma.TranslateStream up to its Initialize call.
YzmaTranslateStream(c) ==
  /\ engine = "yzma" /\ c \in active /\ pc[c] = "idle"
  /\ \E t \in {"", "hi"}, e \in {"", Canceled} :
       /\ op' = [op EXCEPT ![c] = "TranslateStream"]
       /\ text' = [text EXCEPT ![c] = t]
       /\ ctxErr' = [ctxErr EXCEPT ![c] = e]
  /\ pc' = [pc EXCEPT ![c] = "init"]
  /\ UNCHANGED <<active, cfgVars, lifeVars, argVars, procVars, engine, name, yzmaVars, out, closed, ret, msg, nxt, i, result, did>>

\* The caller's continuation after Initialize returned nil.
AfterInitialize(c) ==
  IF op[c] = "Translate"
    THEN /\ pc' = [pc EXCEPT ![c] = "acquire"]
         /\ UNCHANGED <<ret, msg, nxt>>
    ELSE /\ ret' = [ret EXCEPT ![c] = RetChan]
         /\ IF text[c] = ""
              THEN Send(c, Response("", TRUE, ""), "close")
              ELSE /\ pc' = [pc EXCEPT ![c] = "acquire"]
                   /\ UNCHANGED <<msg, nxt>>

\* Variant of Initialize that loads the model without testing the initialized flag.
Initialize_NoFlag(c) ==
  /\ pc[c] = "init" /\ mu = 0
  /\ mu' = 0
  /\ \/ /\ loads' = loads + 1
        /\ model' = loads + 1
        /\ initialized' = TRUE
        /\ Note(c, {"load"})
        /\ AfterInitialize(c)
     \/ /\ Note(c, {"load"})
        /\ ret' = [ret EXCEPT ![c] = RetValue(ZeroResponse, Errorf("yzma error: ", "load failed"))]
        /\ pc' = [pc EXCEPT ![c] = "done"]
        /\ UNCHANGED <<initialized, model, loads, msg, nxt>>
  /\ UNCHANGED <<active, cfgVars, lifeVars, argVars, procVars, engine, name, inUse, op, text, ctxErr, out, closed, i, result>>

\* Variant of Initialize that sets the initialized flag before the load is known
\* to have succeeded.
Initialize_FlagFirst(c) ==
  /\ pc[c] = "init" /\ mu = 0
  /\ mu' = 0
  /\ \/ /\ initialized
        /\ UNCHANGED <<initialized, model, loads, did>>
        /\ AfterInitialize(c)
     \/ /\ ~initialized
        /\ loads' = loads + 1
        /\ model' = loads + 1
        /\ initialized' = TRUE
        /\ Note(c, {"load"})
        /\ AfterInitialize(c)
     \/ /\ ~initialized
        /\ initialized' = TRUE
        /\ Note(c, {"load"})
        /\ ret' = [ret EXCEPT ![c] = RetValue(ZeroResponse, Errorf("yzma error: ", "load failed"))]
        /\ pc' = [pc EXCEPT ![c] = "done"]
        /\ UNCHANGED <<model, loads, msg, nxt>>
  /\ UNCHANGED <<active, cfgVars, lifeVars, argVars, procVars, engine, name, inUse, op, text, ctxErr, out, closed, i, result>>

\* Initialize from e.mu.Lock() to the deferred Unlock (one critical section), and
\* the caller's error check.
Initialize(c) ==
  /\ pc[c] = "init" /\ mu = 0
  /\ mu' = 0
  /\ \/ /\ initialized
        /\ UNCHANGED <<initialized, model, loads, did>>
        /\ AfterInitialize(c)
     \/ /\ ~initialized
        /\ loads' = loads + 1
        /\ model' = loads + 1
        /\ initialized' = TRUE
        /\ Note(c, {"load"})
        /\ AfterInitialize(c)
     \/ /\ ~initialized
        /\ Note(c, {"load"})
        /\ ret' = [ret EXCEPT ![c] = RetValue(ZeroResponse, Errorf("yzma error: ", "load failed"))]
        /\ pc' = [pc EXCEPT ![c] = "done"]
        /\ UNCHANGED <<initialized, model, loads, msg, nxt>>
  /\ UNCHANGED <<active, cfgVars, lifeVars, argVars, procVars, engine, name, inUse, op, text, ctxErr, out, closed, i, result>>

\* acquireModel returned (nil, ctx.Err()): the caller's error path.
AcquireFailed(c, e) ==
  IF op[c] = "Translate"
    THEN /\ ret' = [ret EXCEPT ![c] =
                RetValue(ZeroResponse, Errorf("yzma error: failed to acquire model: ", e))]
         /\ pc' = [pc EXCEPT ![c] = "done"]
         /\ UNCHANGED <<msg, nxt>>
    ELSE /\ Send(c, ErrorResponsef("yzma error: failed to acquire model: ", e), "close")
         /\ UNCHANGED ret

\* Variant of acquireModel whose semaphore has room for a second token.
acquireModel_Ungated(c) ==
  /\ pc[c] = "acquire"
  /\ \/ /\ inUse' = inUse + 1
        /\ pc' = [pc EXCEPT ![c] = "gen"]
        /\ Note(c, IF ctxErr[c] # "" THEN {"acquire", "lateAcquire"} ELSE {"acquire"})
        /\ UNCHANGED <<ret, msg, nxt>>
     \/ /\ ctxErr[c] # ""
        /\ AcquireFailed(c, ctxErr[c])
        /\ UNCHANGED <<inUse, did>>
  /\ UNCHANGED <<active, cfgVars, lifeVars, argVars, procVars, engine, name, initialized, model, mu, loads, op, text, ctxErr,
                 out, closed, i, result>>

\* acquireModel: the select over the semaphore send and ctx.Done().  With both
\* cases ready the runtime picks either; with none ready the goroutine parks.
acquireModel(c) ==
  /\ pc[c] = "acquire"
  /\ \/ /\ inUse = 0
        /\ inUse' = 1
        /\ pc' = [pc EXCEPT ![c] = "gen"]
        /\ Note(c, IF ctxErr[c] # "" THEN {"acquire", "lateAcquire"} ELSE {"acquire"})
        /\ UNCHANGED <<ret, msg, nxt>>
     \/ /\ ctxErr[c] # ""
        /\ AcquireFailed(c, ctxErr[c])
        /\ UNCHANGED <<inUse, did>>
     \/ /\ inUse = 1 /\ ctxErr[c] = ""
        /\ pc' = [pc EXCEPT ![c] = "acquireWait"]
        /\ UNCHANGED <<inUse, ret, msg, nxt, did>>
  /\ UNCHANGED <<active, cfgVars, lifeVars, argVars, procVars, engine, name, initialized, model, mu, loads, op, text, ctxErr,
                 out, closed, i, result>>

\* Positions from which a Yzma call still reads its context.
YzmaReadsCtx == {"init", "acquire", "acquireWait", "gen", "loop", "cbsend", "decode"}

\* The caller cancels the context of a Yzma call.  A goroutine parked in
\* acquireModel's select is woken on the ctx.Done() case.  (A cancellation after
\* the call's last read of ctx changes nothing the call does and is left out.)
Cancel(c) ==
  /\ engine = "yzma"
  /\ pc[c] \in YzmaReadsCtx /\ ctxErr[c] = ""
  /\ ctxErr' = [ctxErr EXCEPT ![c] = Canceled]
  /\ IF pc[c] = "acquireWait"
       THEN AcquireFailed(c, Canceled)
       ELSE UNCHANGED <<pc, ret, msg, nxt>>
  /\ UNCHANGED <<active, cfgVars, lifeVars, argVars, procVars, engine, name, yzmaVars, op, text, out, closed, i, result, did>>

\* Variant of AfterGenerate whose streaming error path returns without running
\* the deferred release.
AfterGenerate_SkipRelease(c, e) ==
  /\ i' = [i EXCEPT ![c] = 0]
  /\ result' = [result EXCEPT ![c] = ""]
  /\ IF op[c] = "Translate"
       THEN /\ ret' = [ret EXCEPT ![c] =
                   IF e # ""
                     THEN IF result[c] # ""
                            THEN RetValue(Response(result[c], TRUE, ""), Errorf("yzma error: ", e))
                            ELSE RetValue(ZeroResponse, Errorf("yzma error: ", e))
                     ELSE RetValue(Response(result[c], TRUE, ""), "")]
            /\ pc' = [pc EXCEPT ![c] = "release"]
            /\ UNCHANGED <<msg, nxt>>
       ELSE /\ IF e # ""
                 THEN Send(c, ErrorResponsef("yzma error: ", e), "close")
                 ELSE Send(c, Response("", TRUE, ""), "release")
            /\ UNCHANGED ret

\* Variant of AfterGenerate whose blocking error path drops the accumulated text.
AfterGenerate_DropPartial(c, e) ==
  /\ i' = [i EXCEPT ![c] = 0]
  /\ result' = [result EXCEPT ![c] = ""]
  /\ IF op[c] = "Translate"
       THEN /\ ret' = [ret EXCEPT ![c] =
                   IF e # ""
                     THEN RetValue(ZeroResponse, Errorf("yzma error: ", e))
                     ELSE RetValue(Response(result[c], TRUE, ""), "")]
            /\ pc' = [pc EXCEPT ![c] = "release"]
            /\ UNCHANGED <<msg, nxt>>
       ELSE /\ IF e # ""
                 THEN Send(c, ErrorResponsef("yzma error: ", e), "release")
                 ELSE Send(c, Response("", TRUE, ""), "release")
            /\ UNCHANGED ret

\* generateTokens returned e ("" is nil): the rest of Translate / of the
\* TranslateStream goroutine up to the next blocking point.  The locals of the
\* finished generateTokens (loop counter, builder) are gone.
AfterGenerate(c, e) ==
  /\ i' = [i EXCEPT ![c] = 0]
  /\ result' = [result EXCEPT ![c] = ""]
  /\ IF op[c] = "Translate"
       THEN /\ ret' = [ret EXCEPT ![c] =
                   IF e # ""
                     THEN IF result[c] # ""
                            THEN RetValue(Response(result[c], TRUE, ""), Errorf("yzma error: ", e))
                            ELSE RetValue(ZeroResponse, Errorf("yzma error: ", e))
                     ELSE RetValue(Response(result[c], TRUE, ""), "")]
            /\ pc' = [pc EXCEPT ![c] = "release"]
            /\ UNCHANGED <<msg, nxt>>
       ELSE /\ IF e # ""
                 THEN Send(c, ErrorResponsef("yzma error: ", e), "release")
                 ELSE Send(c, Response("", TRUE, ""), "release")
            /\ UNCHANGED ret

\* generateTokens before its loop: llama.InitFromModel, Tokenize, the sampler
\* chain, and the Decode of the prompt batch.
generateTokens(c) ==
  /\ pc[c] = "gen"
  /\ \/ /\ AfterGenerate(c, "init context failed")
        /\ UNCHANGED did
     \/ /\ AfterGenerate(c, "decode failed")
        /\ Note(c, {"ctx", "prompt"})
     \/ /\ pc' = [pc EXCEPT ![c] = "loop"]
        /\ Note(c, {"ctx", "prompt"})
        /\ UNCHANGED <<ret, msg, nxt, i, result>>
  /\ UNCHANGED <<active, cfgVars, lifeVars, argVars, procVars, engine, name, yzmaVars, op, text, ctxErr, out, closed>>

\* Variant of generateStep whose loop runs one iteration more than MaxTokens.
generateStep_OneMore(c) ==
  /\ pc[c] = "loop"
  /\ IF i[c] > MaxTokens
       THEN /\ AfterGenerate(c, "")
            /\ UNCHANGED did
       ELSE IF ctxErr[c] # ""
         THEN /\ AfterGenerate(c, ctxErr[c])
              /\ Note(c, {"sawCancel"})
         ELSE /\ Note(c, {"sample"})
              /\ \/ AfterGenerate(c, "")
                 \/ /\ pc' = [pc EXCEPT ![c] = "decode"]
                    /\ UNCHANGED <<ret, msg, nxt, i, result>>
                 \/ /\ op[c] = "Translate"
                    /\ result' = [result EXCEPT ![c] = @ \o TokenToPiece(i[c])]
                    /\ pc' = [pc EXCEPT ![c] = "decode"]
                    /\ UNCHANGED <<ret, msg, nxt, i>>
                 \/ /\ op[c] = "TranslateStream"
                    /\ msg' = [msg EXCEPT ![c] = Response(TokenToPiece(i[c]), FALSE, "")]
                    /\ nxt' = [nxt EXCEPT ![c] = "decode"]
                    /\ pc' = [pc EXCEPT ![c] = "cbsend"]
                    /\ UNCHANGED <<ret, i, result>>
  /\ UNCHANGED <<active, cfgVars, lifeVars, argVars, procVars, engine, name, yzmaVars, op, text, ctxErr, out, closed>>

\* One iteration of the generation loop up to the callback: the range check, the
\* non-blocking ctx.Done() check, SamplerSample, the end-of-sequence test,
\* TokenToPiece and the call of cb.
generateStep(c) ==
  /\ pc[c] = "loop"
  /\ IF i[c] >= MaxTokens
       THEN /\ AfterGenerate(c, "")
            /\ UNCHANGED did
       ELSE IF ctxErr[c] # ""
         THEN /\ AfterGenerate(c, ctxErr[c])
              /\ Note(c, {"sawCancel"})
         ELSE /\ Note(c, {"sample"})
              /\ \/ AfterGenerate(c, "")                 \* token == eosToken
                 \/ /\ pc' = [pc EXCEPT ![c] = "decode"] \* n == 0: no piece
                    /\ UNCHANGED <<ret, msg, nxt, i, result>>
                 \/ /\ op[c] = "Translate"
                    /\ result' = [result EXCEPT ![c] = @ \o TokenToPiece(i[c])]
                    /\ pc' = [pc EXCEPT ![c] = "decode"]
                    /\ UNCHANGED <<ret, msg, nxt, i>>
                 \/ /\ op[c] = "TranslateStream"
                    /\ msg' = [msg EXCEPT ![c] = Response(TokenToPiece(i[c]), FALSE, "")]
                    /\ nxt' = [nxt EXCEPT ![c] = "decode"]
                    /\ pc' = [pc EXCEPT ![c] = "cbsend"]
                    /\ UNCHANGED <<ret, i, result>>
  /\ UNCHANGED <<active, cfgVars, lifeVars, argVars, procVars, engine, name, yzmaVars, op, text, ctxErr, out, closed>>

\* The streaming callback's select takes the ctx.Done() case: cb returns false
\* and generateTokens returns nil.
callbackCancelled(c) ==
  /\ pc[c] = "cbsend" /\ ctxErr[c] # ""
  /\ AfterGenerate(c, "")
  /\ Note(c, {"sawCancel"})
  /\ UNCHANGED <<active, cfgVars, lifeVars, argVars, procVars, engine, name, yzmaVars, op, text, ctxErr, out, closed>>

\* The Decode of the single-token batch that ends an iteration.
decodeToken(c) ==
  /\ pc[c] = "decode"
  /\ \/ /\ pc' = [pc EXCEPT ![c] = "loop"]
        /\ i' = [i EXCEPT ![c] = @ + 1]
        /\ UNCHANGED <<ret, msg, nxt, result>>
     \/ AfterGenerate(c, "decode failed")
  /\ UNCHANGED <<active, cfgVars, lifeVars, argVars, procVars, engine, name, yzmaVars, op, text, ctxErr, out, closed, did>>

\* The deferred release(): <-e.inUse.  A sender parked on the semaphore gets the
\* slot directly.
release(c) ==
  /\ pc[c] = "release"
  /\ LET after == IF op[c] = "Translate" THEN "done" ELSE "close"
         parked == {w \in Calls : pc[w] = "acquireWait"}
     IN  \/ /\ parked = {}
            /\ inUse' = inUse - 1
            /\ pc' = [pc EXCEPT ![c] = after]
            /\ Note(c, {"release"})
         \/ \E w \in parked :
              /\ inUse' = inUse
              /\ pc' = [pc EXCEPT ![c] = after, ![w] = "gen"]
              /\ did' = [did EXCEPT ![c] = @ \cup {"release"}, ![w] = @ \cup {"acquire"}]
  /\ UNCHANGED <<active, cfgVars, lifeVars, argVars, procVars, engine, name, initialized, model, mu, loads, op, text, ctxErr,
                 out, closed, ret, msg, nxt, i, result>>

\* ------------------------------------------------- channel and consumer
\* The consumer receives the Response the worker is sending.
Recv(c) ==
  /\ pc[c] \in {"send", "cbsend"}
  /\ out' = [out EXCEPT ![c] = Append(@, msg[c])]
  /\ pc' = [pc EXCEPT ![c] = nxt[c]]
  /\ UNCHANGED <<active, cfgVars, lifeVars, argVars, procVars, engine, name, yzmaVars, op, text, ctxErr, closed, ret, msg, nxt,
                 i, result, did>>

\* The deferred close(ch).
Close(c) ==
  /\ pc[c] = "close"
  /\ closed' = [closed EXCEPT ![c] = @ + 1]
  /\ pc' = [pc EXCEPT ![c] = "done"]
  /\ UNCHANGED <<active, cfgVars, lifeVars, argVars, procVars, engine, name, yzmaVars, op, text, ctxErr, out, ret, msg, nxt,
                 i, result, did>>

\* ------------------------------------------------------- TerminalEngine
isClaudeCode == name = TerminalClaudeCode

\* What the subprocess may write next: a chunk of bytes, or (structured agent)
\* one line.
Units(c) ==
  IF isClaudeCode
    THEN {DeltaLine(Piece(Len(wrote[c]))), DeltaLine(""), OtherEventLine,
          ResultLine, SystemLine, BadLine}
    ELSE {Piece(Len(wrote[c]))}

\* TerminalEngine.TranslateStream and its goroutine up to cmd.Start.
TerminalTranslateStream(c) ==
  /\ engine = "terminal" /\ c \in active /\ pc[c] = "idle"
  /\ op' = [op EXCEPT ![c] = "TranslateStream"]
  /\ ret' = [ret EXCEPT ![c] = RetChan]
  /\ \E t \in {"", "hi"} :
       /\ text' = [text EXCEPT ![c] = t]
       /\ IF t = ""
            THEN /\ Send(c, Response("", TRUE, ""), "close")
                 /\ UNCHANGED <<proc, rd, did>>
            ELSE \/ /\ Send(c, ErrorResponsef("failed to create pipe: ", "pipe failed"), "close")
                    /\ UNCHANGED <<proc, rd, did>>
                 \/ /\ Send(c, ErrorResponsef("failed to start command: ", "exec failed"), "close")
                    /\ UNCHANGED <<proc, rd, did>>
                 \/ /\ proc' = [proc EXCEPT ![c] = "running"]
                    /\ rd' = [rd EXCEPT ![c] = "read"]
                    /\ pc' = [pc EXCEPT ![c] = "select"]
                    /\ Note(c, {"spawn"})
                    /\ UNCHANGED <<msg, nxt>>
  /\ UNCHANGED <<active, cfgVars, lifeVars, argVars, engine, name, yzmaVars, ctxErr, out, closed, i, result,
                 pipe, wrote, rdVal>>

\* The subprocess writes one unit to its stdout.
ProcWrite(c) ==
  /\ proc[c] = "running" /\ Len(wrote[c]) < MaxChunks
  /\ \E u \in Units(c) :
       /\ pipe' = [pipe EXCEPT ![c] = Append(@, u)]
       /\ wrote' = [wrote EXCEPT ![c] = Append(@, u)]
  /\ UNCHANGED <<active, cfgVars, lifeVars, argVars, engine, name, yzmaVars, pc, op, text, ctxErr, out, closed,
                 ret, msg, nxt, i, result, did, proc, rd, rdVal>>

\* The subprocess exits on its own (also in answer to SIGTERM).
ProcExit(c) ==
  /\ proc[c] = "running"
  /\ \E st \in {"exit0", "exit1"} : proc' = [proc EXCEPT ![c] = st]
  /\ UNCHANGED <<active, cfgVars, lifeVars, argVars, engine, name, yzmaVars, pc, op, text, ctxErr, out, closed,
                 ret, msg, nxt, i, result, did, pipe, wrote, rd, rdVal>>

\* exec.CommandContext: once ctx is done the os/exec watcher kills the process
\* (cmd.Cancel is left at its default, os.Process.Kill).
CommandContext(c) ==
  /\ proc[c] = "running" /\ ctxErr[c] # ""
  /\ proc' = [proc EXCEPT ![c] = "signaled"]
  /\ Note(c, {"ctxKill"})
  /\ UNCHANGED <<active, cfgVars, lifeVars, argVars, engine, name, yzmaVars, pc, op, text, ctxErr, out, closed,
                 ret, msg, nxt, i, result, pipe, wrote, rd, rdVal>>

\* Positions at which the context made by context.WithTimeout is still read.
ReadsCtx(c) ==
  \/ proc[c] = "running"
  \/ pc[c] \in {"select", "generate", "generateSync"}
  \/ pc[c] = "send" /\ nxt[c] \in {"select", "generate"}

\* The streaming worker is in its relay loop: no terminal Response sent yet.
InLoop(c) ==
  \/ pc[c] \in {"select", "generate"}
  \/ pc[c] = "send" /\ nxt[c] \in {"select", "generate"}

\* context.WithTimeout(ctx, Timeout): the timer fires (DeadlineExceeded) or the
\* caller's context is cancelled (Canceled).
WithTimeout(c) ==
  /\ engine \in {"terminal", "ollama"}
  /\ ctxErr[c] = "" /\ ReadsCtx(c)
  /\ \E e \in CtxErrs :
       /\ ctxErr' = [ctxErr EXCEPT ![c] = e]
       /\ Note(c, IF InLoop(c) /\ e = DeadlineExceeded THEN {"expired"} ELSE {})
  /\ UNCHANGED <<active, cfgVars, lifeVars, argVars, engine, name, yzmaVars, pc, op, text, out, closed,
                 ret, msg, nxt, i, result, procVars>>

\* Variant of Reader that hands over the newest unread unit first.
Reader_NewestFirst(c) ==
  /\ rd[c] = "read"
  /\ \/ /\ pipe[c] # <<>>
        /\ rdVal' = [rdVal EXCEPT ![c] = <<pipe[c][Len(pipe[c])]>>]
        /\ pipe' = [pipe EXCEPT ![c] = SubSeq(@, 1, Len(@) - 1)]
        /\ rd' = [rd EXCEPT ![c] = "sendData"]
     \/ /\ pipe[c] = <<>> /\ proc[c] # "running"
        /\ rd' = [rd EXCEPT ![c] = "done"]
        /\ UNCHANGED <<pipe, rdVal>>
     \/ /\ rd' = [rd EXCEPT ![c] = "sendErr"]
        /\ UNCHANGED <<pipe, rdVal>>
  /\ UNCHANGED <<active, cfgVars, lifeVars, argVars, engine, name, yzmaVars, pc, op, text, ctxErr, out, closed,
                 ret, msg, nxt, i, result, did, proc, wrote>>

\* The reader goroutine's blocking read (stdout.Read / scanner.Scan): data, end
\* of stream (the channel is closed), or a read error to be forwarded.
Reader(c) ==
  /\ rd[c] = "read"
  /\ \/ /\ pipe[c] # <<>>
        /\ rdVal' = [rdVal EXCEPT ![c] = <<Head(pipe[c])>>]
        /\ pipe' = [pipe EXCEPT ![c] = Tail(@)]
        /\ rd' = [rd EXCEPT ![c] = "sendData"]
     \/ /\ pipe[c] = <<>> /\ proc[c] # "running"
        /\ rd' = [rd EXCEPT ![c] = "done"]
        /\ UNCHANGED <<pipe, rdVal>>
     \/ /\ rd' = [rd EXCEPT ![c] = "sendErr"]
        /\ UNCHANGED <<pipe, rdVal>>
  /\ UNCHANGED <<active, cfgVars, lifeVars, argVars, engine, name, yzmaVars, pc, op, text, ctxErr, out, closed,
                 ret, msg, nxt, i, result, did, proc, wrote>>

\* The select's ctx.Done() case in both coordinators: gracefulShutdown up to its
\* own select (SIGTERM sent, waiter goroutine started).
ctxDoneCase(c) ==
  /\ ctxErr[c] # ""
  /\ Note(c, {"sawCancel", "sigterm"})
  /\ pc' = [pc EXCEPT ![c] = "gsWait"]
  /\ UNCHANGED <<msg, nxt, rd, rdVal, result>>

\* Variant of streamRawOutput that goes on looping after forwarding a read error.
streamRawOutput_NoReturn(c) ==
  /\ engine = "terminal" /\ ~isClaudeCode /\ pc[c] = "select"
  /\ \/ ctxDoneCase(c)
     \/ /\ rd[c] = "done"
        /\ pc' = [pc EXCEPT ![c] = "waitEOF"]
        /\ UNCHANGED <<msg, nxt, rd, rdVal, result, did>>
     \/ /\ rd[c] = "sendErr"
        /\ rd' = [rd EXCEPT ![c] = "done"]
        /\ Send(c, ErrorResponsef("read error: ", "read failed"), "select")
        /\ UNCHANGED <<rdVal, result, did>>
     \/ /\ rd[c] = "sendData"
        /\ rd' = [rd EXCEPT ![c] = "read"]
        /\ rdVal' = [rdVal EXCEPT ![c] = <<>>]
        /\ Send(c, Response(rdVal[c][1], FALSE, ""), "select")
        /\ UNCHANGED <<result, did>>
  /\ UNCHANGED <<active, cfgVars, lifeVars, argVars, engine, name, yzmaVars, op, text, ctxErr, out, closed,
                 ret, i, proc, pipe, wrote>>

\* One iteration of streamRawOutput's coordination loop.
streamRawOutput(c) ==
  /\ engine = "terminal" /\ ~isClaudeCode /\ pc[c] = "select"
  /\ \/ ctxDoneCase(c)
     \/ /\ rd[c] = "done"                        \* !ok
        /\ pc' = [pc EXCEPT ![c] = "waitEOF"]
        /\ UNCHANGED <<msg, nxt, rd, rdVal, result, did>>
     \/ /\ rd[c] = "sendErr"
        /\ rd' = [rd EXCEPT ![c] = "done"]
        /\ Send(c, ErrorResponsef("read error: ", "read failed"), "waitErr")
        /\ UNCHANGED <<rdVal, result, did>>
     \/ /\ rd[c] = "sendData"
        /\ rd' = [rd EXCEPT ![c] = "read"]
        /\ rdVal' = [rdVal EXCEPT ![c] = <<>>]
        /\ Send(c, Response(rdVal[c][1], FALSE, ""), "select")
        /\ UNCHANGED <<result, did>>
  /\ UNCHANGED <<active, cfgVars, lifeVars, argVars, engine, name, yzmaVars, op, text, ctxErr, out, closed,
                 ret, i, proc, pipe, wrote>>

\* Variant of claudeCodeEvent that forwards the delta instead of the accumulator.
claudeCodeEvent_DeltaOnly(c, ev) ==
  IF ~ev.ok
    THEN UNCHANGED <<pc, msg, nxt, result>>
    ELSE IF ev.Type = "stream_event"
      THEN IF /\ ev.EventType = "content_block_delta"
              /\ ev.DeltaType = "text_delta" /\ ev.DeltaText # ""
             THEN /\ result' = [result EXCEPT ![c] = @ \o ev.DeltaText]
                  /\ Send(c, Response(ev.DeltaText, FALSE, ""), "select")
             ELSE UNCHANGED <<pc, msg, nxt, result>>
      ELSE IF ev.Type = "result"
        THEN /\ pc' = [pc EXCEPT ![c] = "waitResult"]
             /\ UNCHANGED <<msg, nxt, result>>
        ELSE UNCHANGED <<pc, msg, nxt, result>>

\* What streamClaudeCodeOutput does with one received line.
claudeCodeEvent(c, ev) ==
  IF ~ev.ok
    THEN UNCHANGED <<pc, msg, nxt, result>>       \* skip non-JSON lines
    ELSE IF ev.Type = "stream_event"
      THEN IF /\ ev.EventType = "content_block_delta"
              /\ ev.DeltaType = "text_delta" /\ ev.DeltaText # ""
             THEN /\ result' = [result EXCEPT ![c] = @ \o ev.DeltaText]
                  /\ Send(c, Response(result[c] \o ev.DeltaText, FALSE, ""), "select")
             ELSE UNCHANGED <<pc, msg, nxt, result>>
      ELSE IF ev.Type = "result"
        THEN /\ pc' = [pc EXCEPT ![c] = "waitResult"]
             /\ UNCHANGED <<msg, nxt, result>>
        ELSE UNCHANGED <<pc, msg, nxt, result>>

\* Variant of streamClaudeCodeOutput whose select has no ctx.Done() case.
streamClaudeCodeOutput_NoCtxCase(c) ==
  /\ engine = "terminal" /\ isClaudeCode /\ pc[c] = "select"
  /\ \/ /\ rd[c] = "done"
        /\ claudeCodeEvent(c, BadLine)
        /\ Note(c, {"spun"})
        /\ UNCHANGED <<rd, rdVal>>
     \/ /\ rd[c] = "sendErr"
        /\ rd' = [rd EXCEPT ![c] = "done"]
        /\ Send(c, ErrorResponsef("read error: ", "read failed"), "waitErr")
        /\ UNCHANGED <<rdVal, result, did>>
     \/ /\ rd[c] = "sendData"
        /\ rd' = [rd EXCEPT ![c] = "read"]
        /\ rdVal' = [rdVal EXCEPT ![c] = <<>>]
        /\ claudeCodeEvent(c, rdVal[c][1])
        /\ UNCHANGED did
  /\ UNCHANGED <<active, cfgVars, lifeVars, argVars, engine, name, yzmaVars, op, text, ctxErr, out, closed,
                 ret, i, proc, pipe, wrote>>

\* Variant of streamClaudeCodeOutput that tests the receive's ok and ends the
\* stream at the close of lineCh, as streamRawOutput does.
streamClaudeCodeOutput_EndOfStream(c) ==
  /\ engine = "terminal" /\ isClaudeCode /\ pc[c] = "select"
  /\ \/ ctxDoneCase(c)
     \/ /\ rd[c] = "done"
        /\ pc' = [pc EXCEPT ![c] = "waitEOF"]
        /\ Note(c, {"spun"})
        /\ UNCHANGED <<msg, nxt, rd, rdVal, result>>
     \/ /\ rd[c] = "sendErr"
        /\ rd' = [rd EXCEPT ![c] = "done"]
        /\ Send(c, ErrorResponsef("read error: ", "read failed"), "waitErr")
        /\ UNCHANGED <<rdVal, result, did>>
     \/ /\ rd[c] = "sendData"
        /\ rd' = [rd EXCEPT ![c] = "read"]
        /\ rdVal' = [rdVal EXCEPT ![c] = <<>>]
        /\ claudeCodeEvent(c, rdVal[c][1])
        /\ UNCHANGED did
  /\ UNCHANGED <<active, cfgVars, lifeVars, argVars, engine, name, yzmaVars, op, text, ctxErr, out, closed,
                 ret, i, proc, pipe, wrote>>

\* One iteration of streamClaudeCodeOutput's coordination loop.  A receive from
\* the closed lineCh yields the zero lineResult: an empty line, no error.
streamClaudeCodeOutput(c) ==
  /\ engine = "terminal" /\ isClaudeCode /\ pc[c] = "select"
  /\ \/ ctxDoneCase(c)
     \/ /\ rd[c] = "done"
        /\ claudeCodeEvent(c, BadLine)
        /\ Note(c, {"spun"})
        /\ UNCHANGED <<rd, rdVal>>
     \/ /\ rd[c] = "sendErr"
        /\ rd' = [rd EXCEPT ![c] = "done"]
        /\ Send(c, ErrorResponsef("read error: ", "read failed"), "waitErr")
        /\ UNCHANGED <<rdVal, result, did>>
     \/ /\ rd[c] = "sendData"
        /\ rd' = [rd EXCEPT ![c] = "read"]
        /\ rdVal' = [rdVal EXCEPT ![c] = <<>>]
        /\ claudeCodeEvent(c, rdVal[c][1])
        /\ UNCHANGED did
  /\ UNCHANGED <<active, cfgVars, lifeVars, argVars, engine, name, yzmaVars, op, text, ctxErr, out, closed,
                 ret, i, proc, pipe, wrote>>

\* gracefulShutdown's select: the waiter's proc.Wait() has returned, or the
\* 3 second timer fires and the process is killed and waited for.  Then the
\* coordinator sends the timeout Response.
gracefulShutdown(c) ==
  /\ pc[c] = "gsWait"
  /\ \/ /\ proc[c] # "running"
        /\ Note(c, {"reaped"})
        /\ UNCHANGED proc
     \/ /\ proc' = [proc EXCEPT ![c] = IF @ = "running" THEN "signaled" ELSE @]
        /\ Note(c, {"kill", "reaped"})
  /\ Send(c, ErrorResponse("translation timed out"), "cmdWait")
  /\ UNCHANGED <<active, cfgVars, lifeVars, argVars, engine, name, yzmaVars, op, text, ctxErr, out, closed,
                 ret, i, result, pipe, wrote, rd, rdVal>>

\* Variant of cmdWait that sends the terminal Response before waiting.
cmdWait_SendFirst(c) ==
  /\ pc[c] \in {"waitEOF", "waitResult", "waitErr", "cmdWait"}
  /\ proc[c] # "running" \/ pc[c] \in {"waitEOF", "waitResult"}
  /\ Note(c, IF pc[c] \in {"waitEOF", "waitResult"} THEN {} ELSE {"reaped"})
  /\ IF pc[c] \in {"waitEOF", "waitResult"}
       THEN Send(c, Response("", TRUE, ""), "cmdWait")
       ELSE /\ pc' = [pc EXCEPT ![c] = IF pc[c] = "waitErr" THEN "cmdWait" ELSE "close"]
            /\ UNCHANGED <<msg, nxt>>
  /\ UNCHANGED <<active, cfgVars, lifeVars, argVars, engine, name, yzmaVars, op, text, ctxErr, out, closed,
                 ret, i, result, procVars>>

\* cmd.Wait(): returns once the process has exited.
cmdWait(c) ==
  /\ pc[c] \in {"waitEOF", "waitResult", "waitErr", "cmdWait"}
  /\ proc[c] # "running"
  /\ Note(c, {"reaped"})
  /\ IF pc[c] \in {"waitEOF", "waitResult"}
       THEN Send(c, Response("", TRUE, ""), "cmdWait")
       ELSE /\ pc' = [pc EXCEPT ![c] = IF pc[c] = "waitErr" THEN "cmdWait" ELSE "close"]
            /\ UNCHANGED <<msg, nxt>>
  /\ UNCHANGED <<active, cfgVars, lifeVars, argVars, engine, name, yzmaVars, op, text, ctxErr, out, closed,
                 ret, i, result, procVars>>

\* The text of a unit as bytes of stdout.
UnitText(u) ==
  IF ~isClaudeCode THEN u
  ELSE IF ~u.ok THEN "?\n"
  ELSE IF u.Type = "stream_event" THEN "{delta:" \o u.DeltaText \o "}\n"
  ELSE "{" \o u.Type \o "}\n"

RECURSIVE Concat(_)
Concat(units) ==
  IF units = <<>> THEN "" ELSE UnitText(Head(units)) \o Concat(Tail(units))

\* TerminalEngine.Translate up to cmd.Output().
TerminalTranslate(c) ==
  /\ engine = "terminal" /\ c \in active /\ pc[c] = "idle"
  /\ op' = [op EXCEPT ![c] = "Translate"]
  /\ \E t \in {"", "hi"} :
       /\ text' = [text EXCEPT ![c] = t]
       /\ IF t = ""
            THEN /\ ret' = [ret EXCEPT ![c] = RetValue(Response("", TRUE, ""), "")]
                 /\ pc' = [pc EXCEPT ![c] = "done"]
                 /\ UNCHANGED <<proc, did>>
            ELSE \/ /\ ret' = [ret EXCEPT ![c] =
                           RetValue(ZeroResponse, Errorf("terminal agent error: ", "exec failed"))]
                    /\ pc' = [pc EXCEPT ![c] = "done"]
                    /\ UNCHANGED <<proc, did>>
                 \/ /\ proc' = [proc EXCEPT ![c] = "running"]
                    /\ pc' = [pc EXCEPT ![c] = "output"]
                    /\ Note(c, {"spawn"})
                    /\ UNCHANGED ret
  /\ UNCHANGED <<active, cfgVars, lifeVars, argVars, engine, name, yzmaVars, ctxErr, out, closed, msg, nxt, i,
                 result, pipe, wrote, rd, rdVal>>

\* Variant of Output that reports every failure as a generic process error.
Output_NoDeadlineCheck(c) ==
  /\ pc[c] = "output" /\ proc[c] # "running"
  /\ ret' = [ret EXCEPT ![c] =
        IF proc[c] # "exit0"
          THEN RetValue(ZeroResponse, Errorf("terminal agent error: ", "exit status"))
          ELSE RetValue(Response(TrimSpace(Concat(pipe[c])), TRUE, ""), "")]
  /\ pipe' = [pipe EXCEPT ![c] = <<>>]
  /\ pc' = [pc EXCEPT ![c] = "done"]
  /\ Note(c, {"reaped"})
  /\ UNCHANGED <<active, cfgVars, lifeVars, argVars, engine, name, yzmaVars, op, text, ctxErr, out, closed,
                 msg, nxt, i, result, proc, wrote, rd, rdVal>>

\* cmd.Output() returns: the rest of TerminalEngine.Translate.
Output(c) ==
  /\ pc[c] = "output" /\ proc[c] # "running"
  /\ ret' = [ret EXCEPT ![c] =
        IF proc[c] # "exit0"
          THEN IF ctxErr[c] = DeadlineExceeded
                 THEN RetValue(ZeroResponse, "translation timed out")
                 ELSE RetValue(ZeroResponse, Errorf("terminal agent error: ", "exit status"))
          ELSE RetValue(Response(TrimSpace(Concat(pipe[c])), TRUE, ""), "")]
  /\ pipe' = [pipe EXCEPT ![c] = <<>>]
  /\ pc' = [pc EXCEPT ![c] = "done"]
  /\ Note(c, {"reaped"})
  /\ UNCHANGED <<active, cfgVars, lifeVars, argVars, engine, name, yzmaVars, op, text, ctxErr, out, closed,
                 msg, nxt, i, result, proc, wrote, rd, rdVal>>

\* ---------------------------------------------------------------- Ollama
\* The caller's code after client.Generate returned e ("" is nil).
AfterOllamaGenerate(c, e) ==
  IF op[c] = "Translate"
    THEN /\ ret' = [ret EXCEPT ![c] =
                IF e # ""
                  THEN IF ctxErr[c] = DeadlineExceeded
                         THEN RetValue(ZeroResponse, "translation timed out")
                         ELSE RetValue(ZeroResponse, Errorf("ollama error: ", e))
                  ELSE RetValue(Response(TrimSpace(result[c]), TRUE, ""), "")]
         /\ result' = [result EXCEPT ![c] = ""]
         /\ pc' = [pc EXCEPT ![c] = "done"]
         /\ UNCHANGED <<msg, nxt>>
    ELSE /\ IF e # ""
              THEN IF ctxErr[c] = DeadlineExceeded
                     THEN Send(c, ErrorResponse("translation timed out"), "close")
                     ELSE Send(c, ErrorResponsef("ollama error: ", e), "close")
              ELSE /\ pc' = [pc EXCEPT ![c] = "close"]
                   /\ UNCHANGED <<msg, nxt>>
         /\ UNCHANGED <<ret, result>>

\* Ollama.Translate up to client.Generate.
OllamaTranslate(c) ==
  /\ engine = "ollama" /\ c \in active /\ pc[c] = "idle"
  /\ op' = [op EXCEPT ![c] = "Translate"]
  /\ \E t \in {"", "hi"} :
       /\ text' = [text EXCEPT ![c] = t]
       /\ IF t = ""
            THEN /\ ret' = [ret EXCEPT ![c] = RetValue(Response("", TRUE, ""), "")]
                 /\ pc' = [pc EXCEPT ![c] = "done"]
                 /\ UNCHANGED did
            ELSE /\ pc' = [pc EXCEPT ![c] = "generateSync"]
                 /\ Note(c, {"http"})
                 /\ UNCHANGED ret
  /\ UNCHANGED <<active, cfgVars, lifeVars, argVars, engine, name, yzmaVars, ctxErr, out, closed, msg, nxt, i,
                 result, procVars>>

\* Ollama.TranslateStream and its goroutine up to client.Generate.
OllamaTranslateStream(c) ==
  /\ engine = "ollama" /\ c \in active /\ pc[c] = "idle"
  /\ op' = [op EXCEPT ![c] = "TranslateStream"]
  /\ ret' = [ret EXCEPT ![c] = RetChan]
  /\ \E t \in {"", "hi"} :
       /\ text' = [text EXCEPT ![c] = t]
       /\ IF t = ""
            THEN /\ Send(c, Response("", TRUE, ""), "close")
                 /\ UNCHANGED did
            ELSE /\ pc' = [pc EXCEPT ![c] = "generate"]
                 /\ Note(c, {"http"})
                 /\ UNCHANGED <<msg, nxt>>
  /\ UNCHANGED <<active, cfgVars, lifeVars, argVars, engine, name, yzmaVars, ctxErr, out, closed, i,
                 result, procVars>>

\* Variant of GenerateChunk whose callback relays without testing ctx.Done().
GenerateChunk_NoCtxCheck(c) ==
  /\ pc[c] \in {"generate", "generateSync"} /\ Len(wrote[c]) < MaxChunks
  /\ \E t \in {"", Piece(Len(wrote[c]))}, d \in BOOLEAN :
     /\ wrote' = [wrote EXCEPT ![c] = Append(@, Response(t, d, ""))]
     /\ IF op[c] = "Translate"
         THEN /\ result' = [result EXCEPT ![c] = @ \o t]
              /\ pc' = [pc EXCEPT ![c] = IF d THEN "generateEnd" ELSE @]
              /\ UNCHANGED <<ret, msg, nxt, did>>
         ELSE /\ Send(c, Response(t, d, ""), IF d THEN "close" ELSE "generate")
              /\ UNCHANGED <<ret, result, did>>
  /\ UNCHANGED <<active, cfgVars, lifeVars, argVars, engine, name, yzmaVars, op, text, ctxErr, out, closed, i,
                 proc, pipe, rd, rdVal>>

\* client.Generate delivers one streamed chunk to the callback.  The server's
\* chunk flagged done is the last one; Generate returns nil after it.
GenerateChunk(c) ==
  /\ pc[c] \in {"generate", "generateSync"} /\ Len(wrote[c]) < MaxChunks
  /\ \E t \in {"", Piece(Len(wrote[c]))}, d \in BOOLEAN :
     /\ wrote' = [wrote EXCEPT ![c] = Append(@, Response(t, d, ""))]
     /\ IF op[c] = "Translate"
         THEN /\ result' = [result EXCEPT ![c] = @ \o t]
              /\ pc' = [pc EXCEPT ![c] = IF d THEN "generateEnd" ELSE @]
              /\ UNCHANGED <<ret, msg, nxt, did>>
         ELSE IF ctxErr[c] # ""
           THEN /\ AfterOllamaGenerate(c, ctxErr[c])
                /\ Note(c, {"sawCancel"})
           ELSE /\ Send(c, Response(t, d, ""), IF d THEN "close" ELSE "generate")
                /\ UNCHANGED <<ret, result, did>>
  /\ UNCHANGED <<active, cfgVars, lifeVars, argVars, engine, name, yzmaVars, op, text, ctxErr, out, closed, i,
                 proc, pipe, rd, rdVal>>

\* client.Generate returns: a transport error or, once ctx is done, the context's
\* error (both only before a chunk flagged done), or nil when the stream ends.
GenerateReturn(c) ==
  /\ pc[c] \in {"generate", "generateSync", "generateEnd"}
  /\ \/ /\ pc[c] # "generateEnd"
        /\ AfterOllamaGenerate(c, "connection failed")
     \/ /\ pc[c] # "generateEnd" /\ ctxErr[c] # ""
        /\ AfterOllamaGenerate(c, ctxErr[c])
     \/ AfterOllamaGenerate(c, "")
  /\ UNCHANGED <<active, cfgVars, lifeVars, argVars, engine, name, yzmaVars, op, text, ctxErr, out, closed, i,
                 did, procVars>>

\* ------------------------------------------- TerminalEngine: arguments
\* The functional options.  WithTerminalArgs stores the caller's slice, whose
\* capacity (acap) may exceed its length.
WithTerminalTimeout(timeout) ==
  [opt |-> "timeout", timeout |-> timeout, args |-> <<>>, cap |-> 0, command |-> ""]
WithTerminalArgs(a, acap) ==
  [opt |-> "args", timeout |-> 0, args |-> a, cap |-> acap, command |-> ""]
WithTerminalCommand(command) ==
  [opt |-> "command", timeout |-> 0, args |-> <<>>, cap |-> 0, command |-> command]

\* for _, opt := range opts { opt(e) }
RECURSIVE ApplyOptions(_, _)
ApplyOptions(e, opts) ==
  IF opts = <<>> THEN e
  ELSE LET o == Head(opts)
           e1 == IF o.opt = "timeout" THEN [e EXCEPT !.config.Timeout = o.timeout]
                 ELSE IF o.opt = "args" THEN [e EXCEPT !.config.Args = o.args, !.cap = o.cap]
                 ELSE [e EXCEPT !.config.Command = o.command]
       IN  ApplyOptions(e1, Tail(opts))

NewTerminalEngine(engineType, opts) ==
  ApplyOptions([name |-> engineType, config |-> predefinedEngines(engineType),
                cap |-> Len(predefinedEngines(engineType).Args)], opts)

NewCustomTerminalEngine(n, command, a, acap, opts) ==
  ApplyOptions([name |-> n, config |-> TerminalConfig(command, a, 60), cap |-> acap], opts)

\* NewTerminalEngine of the older engine package.
NewTerminalEngineLegacy(engineType, opts) ==
  ApplyOptions([name |-> engineType, config |-> predefinedEnginesLegacy(engineType),
                cap |-> Len(predefinedEnginesLegacy(engineType).Args)], opts)

\* The option lists and the engines constructed from them.
OptionLists ==
  { <<>>,
    <<WithTerminalTimeout(5)>>,
    <<WithTerminalArgs(<<"-p">>, 2)>>,
    <<WithTerminalCommand("claude")>>,
    <<WithTerminalCommand("gemini"),
      WithTerminalArgs(<<"--output-format", "stream-json", "-p">>, 3)>> }

Constructed ==
  {NewTerminalEngine(t, o) : t \in Names, o \in OptionLists}
    \cup {NewCustomTerminalEngine(n, "agent", <<"run">>, 1, o) :
            n \in {TerminalClaudeCode, "custom"},
            o \in {<<>>, <<WithTerminalCommand("claude")>>}}

ConstructedLegacy ==
  {NewTerminalEngineLegacy(t, o) : t \in Names, o \in OptionLists}

\* Prompt templates as token sequences; Request.Prompt is their concatenation.
Placeholders == {"{{text}}", "{{source_lang}}", "{{target_lang}}"}
Templates ==
  { <<"Translate ", "{{text}}", " from ", "{{source_lang}}", " to ", "{{target_lang}}">>,
    <<"{{text}}", "|", "{{text}}", "|", "{{source_lang}}">> }

RECURSIVE Join(_)
Join(q) == IF q = <<>> THEN "" ELSE Head(q) \o Join(Tail(q))

Request(template, txt, sourceLang, targetLang, systemPrompt) ==
  [Text |-> txt, SourceLang |-> sourceLang, TargetLang |-> targetLang,
   Prompt |-> template, SystemPrompt |-> systemPrompt]

\* The requests made of the engine.
Requests ==
  {Request(Join(t), "hi", "en", "ko", "") : t \in Templates}
    \cup {Request(Join(t), "{{target_lang}}", "{{text}}", "ko", "Be brief.") : t \in Templates}
    \cup {Request("{{text}}", "", "en", "ko", "")}

Methods == {"Translate", "TranslateStream"}

\* Variant of buildArgs that adds the system prompt for every agent.
buildArgs_AnyAgent(p, systemPrompt) ==
  LET a0 == config.Args
      a1 == IF systemPrompt # ""
              THEN a0 \o <<"--system-prompt", systemPrompt>>
              ELSE a0
  IN  Append(a1, p)

\* TerminalEngine.buildArgs: a copy of config.Args, the system prompt pair for
\* Claude Code, then the prompt.
buildArgs(p, systemPrompt) ==
  LET a0 == config.Args
      a1 == IF name = TerminalClaudeCode /\ systemPrompt # ""
              THEN a0 \o <<"--system-prompt", systemPrompt>>
              ELSE a0
  IN  Append(a1, p)

\* Translate / TranslateStream from the call to BuildPrompt.
TerminalRequest(c) ==
  /\ engine = "terminal" /\ c \in active /\ stage[c] = "idle"
  /\ \E r \in Requests, m \in Methods :
       /\ req' = [req EXCEPT ![c] = r]
       /\ op' = [op EXCEPT ![c] = m]
       /\ IF r.Text = ""
            THEN /\ stage' = [stage EXCEPT ![c] = "done"]
                 /\ UNCHANGED prompt
            ELSE /\ prompt' = [prompt EXCEPT ![c] =
                        BuildPrompt(r.Prompt, r.Text, r.SourceLang, r.TargetLang)]
                 /\ stage' = [stage EXCEPT ![c] = "prompt"]
  /\ UNCHANGED <<active, cfgVars, lifeVars, procVars, engine, name, yzmaVars, pc, text, ctxErr, out,
                 closed, ret, msg, nxt, i, result, did,
                 config, argsCap, spare, args, argv, strategy>>

\* args := e.buildArgs(prompt, req.SystemPrompt)
buildArgsCall(c) ==
  /\ stage[c] = "prompt" /\ args[c] = <<>>
  /\ args' = [args EXCEPT ![c] = buildArgs(prompt[c], req[c].SystemPrompt)]
  /\ stage' = [stage EXCEPT ![c] = "args"]
  /\ UNCHANGED <<active, cfgVars, lifeVars, procVars, engine, name, yzmaVars, pc, op, text, ctxErr, out,
                 closed, ret, msg, nxt, i, result, did,
                 config, argsCap, spare, req, prompt, argv, strategy>>

\* exec.CommandContext(ctx, e.config.Command, args...): cmd.Args is a fresh slice
\* of the command name and the arguments.
execCommand(c) ==
  /\ stage[c] = "args" /\ args[c] # <<>>
  /\ argv' = [argv EXCEPT ![c] = <<config.Command>> \o args[c]]
  /\ stage' = [stage EXCEPT ![c] = IF op[c] = "TranslateStream" THEN "started" ELSE "done"]
  /\ UNCHANGED <<active, cfgVars, lifeVars, procVars, engine, name, yzmaVars, pc, op, text, ctxErr, out,
                 closed, ret, msg, nxt, i, result, did,
                 config, argsCap, spare, req, prompt, args, strategy>>

\* Variant of selectStrategy that decides by the configured command.
selectStrategy_ByCommand(c) ==
  /\ stage[c] = "started"
  /\ strategy' = [strategy EXCEPT ![c] =
        IF config.Command = "claude" THEN "structured" ELSE "raw"]
  /\ stage' = [stage EXCEPT ![c] = "done"]
  /\ UNCHANGED <<active, cfgVars, lifeVars, procVars, engine, name, yzmaVars, pc, op, text, ctxErr, out,
                 closed, ret, msg, nxt, i, result, did,
                 config, argsCap, spare, req, prompt, args, argv>>

\* TranslateStream after cmd.Start: isClaudeCode selects streamClaudeCodeOutput or
\* streamRawOutput.
selectStrategy(c) ==
  /\ stage[c] = "started"
  /\ strategy' = [strategy EXCEPT ![c] = IF isClaudeCode THEN "structured" ELSE "raw"]
  /\ stage' = [stage EXCEPT ![c] = "done"]
  /\ UNCHANGED <<active, cfgVars, lifeVars, procVars, engine, name, yzmaVars, pc, op, text, ctxErr, out,
                 closed, ret, msg, nxt, i, result, did,
                 config, argsCap, spare, req, prompt, args, argv>>

\* --------------------------------- TerminalEngine, older engine package
\* Translate / TranslateStream of the older package from the call to BuildPrompt.
LegacyRequest(c) ==
  /\ engine = "terminal" /\ c \in active /\ stage[c] = "idle"
  /\ \E r \in Requests, m \in Methods :
       /\ req' = [req EXCEPT ![c] = r]
       /\ op' = [op EXCEPT ![c] = m]
       /\ IF r.Text = ""
            THEN /\ stage' = [stage EXCEPT ![c] = "done"]
                 /\ UNCHANGED prompt
            ELSE /\ prompt' = [prompt EXCEPT ![c] =
                        BuildPromptLegacy(r.Prompt, r.Text, r.SourceLang, r.TargetLang)]
                 /\ stage' = [stage EXCEPT ![c] = "prompt"]
  /\ UNCHANGED <<active, cfgVars, lifeVars, procVars, engine, name, yzmaVars, pc, text, ctxErr, out,
                 closed, ret, msg, nxt, i, result, did,
                 config, argsCap, spare, args, argv, strategy>>

\* The slice a call obtained from append(e.config.Args, prompt) while it shares
\* the backing array of config.Args.
Aliased == <<"&config.Args">>

\* args := append(e.config.Args, prompt).  With spare capacity append stores the
\* prompt in the slot after config.Args, in place, and the result shares the
\* backing array; otherwise it allocates a new array.
LegacyAppend(c) ==
  /\ stage[c] = "prompt" /\ args[c] = <<>>
  /\ IF argsCap > Len(config.Args)
       THEN /\ spare' = prompt[c]
            /\ args' = [args EXCEPT ![c] = Aliased]
       ELSE /\ args' = [args EXCEPT ![c] = Append(config.Args, prompt[c])]
            /\ UNCHANGED spare
  /\ stage' = [stage EXCEPT ![c] = "args"]
  /\ UNCHANGED <<active, cfgVars, lifeVars, procVars, engine, name, yzmaVars, pc, op, text, ctxErr, out,
                 closed, ret, msg, nxt, i, result, did,
                 config, argsCap, req, prompt, argv, strategy>>

\* exec.CommandContext(ctx, e.config.Command, args...) of the older package: the
\* arguments are read from the slice as it is now.
LegacyCommand(c) ==
  /\ stage[c] = "args" /\ args[c] # <<>>
  /\ argv' = [argv EXCEPT ![c] =
        <<config.Command>> \o (IF args[c] = Aliased THEN Append(config.Args, spare)
                                                    ELSE args[c])]
  /\ stage' = [stage EXCEPT ![c] = "done"]
  /\ UNCHANGED <<active, cfgVars, lifeVars, procVars, engine, name, yzmaVars, pc, op, text, ctxErr, out,
                 closed, ret, msg, nxt, i, result, did,
                 config, argsCap, spare, req, prompt, args, strategy>>

\* ----------------------------------------------------------- Engine.Close
\* Variant of YzmaClose that frees the handle without testing it.
YzmaClose_NoGuard ==
  /\ engine = "yzma" /\ mu = 0 /\ Len(closeRet) < MaxCloses
  /\ mu' = 0
  /\ frees' = frees + 1
  /\ model' = 0
  /\ initialized' = FALSE
  /\ closeRet' = Append(closeRet, "")
  /\ UNCHANGED <<active, cfgVars, argVars, engine, name, inUse, loads, pc, op, text, ctxErr, out, closed,
                 ret, msg, nxt, i, result, did, procVars>>

\* Variant of YzmaClose that frees the handle and leaves the initialized flag set.
YzmaClose_KeepFlag ==
  /\ engine = "yzma" /\ mu = 0 /\ Len(closeRet) < MaxCloses
  /\ mu' = 0
  /\ IF model # 0
       THEN /\ frees' = frees + 1
            /\ model' = 0
            /\ UNCHANGED initialized
       ELSE UNCHANGED <<frees, model, initialized>>
  /\ closeRet' = Append(closeRet, "")
  /\ UNCHANGED <<active, cfgVars, argVars, engine, name, inUse, loads, pc, op, text, ctxErr, out, closed,
                 ret, msg, nxt, i, result, did, procVars>>

\* Yzma.Close, from e.mu.Lock() to the deferred Unlock.
YzmaClose ==
  /\ engine = "yzma" /\ mu = 0 /\ Len(closeRet) < MaxCloses
  /\ mu' = 0
  /\ IF model # 0
       THEN /\ frees' = frees + 1
            /\ model' = 0
            /\ initialized' = FALSE
       ELSE UNCHANGED <<frees, model, initialized>>
  /\ closeRet' = Append(closeRet, "")
  /\ UNCHANGED <<active, cfgVars, argVars, engine, name, inUse, loads, pc, op, text, ctxErr, out, closed,
                 ret, msg, nxt, i, result, did, procVars>>

\* TerminalEngine.Close: return nil.
TerminalClose ==
  /\ engine = "terminal" /\ Len(closeRet) < MaxCloses
  /\ closeRet' = Append(closeRet, "")
  /\ UNCHANGED <<active, cfgVars, argVars, engine, name, yzmaVars, frees, pc, op, text, ctxErr, out, closed,
                 ret, msg, nxt, i, result, did, procVars>>

\* Ollama.Close: return nil.
OllamaClose ==
  /\ engine = "ollama" /\ Len(closeRet) < MaxCloses
  /\ closeRet' = Append(closeRet, "")
  /\ UNCHANGED <<active, cfgVars, argVars, engine, name, yzmaVars, frees, pc, op, text, ctxErr, out, closed,
                 ret, msg, nxt, i, result, did, procVars>>

NextClose ==
  \/ YzmaClose
  \/ TerminalClose
  \/ OllamaClose

NextYzma ==
  \/ \E c \in Calls : YzmaTranslate(c)
  \/ \E c \in Calls : YzmaTranslateStream(c)
  \/ \E c \in Calls : Initialize(c)
  \/ \E c \in Calls : acquireModel(c)
  \/ \E c \in Calls : Cancel(c)
  \/ \E c \in Calls : generateTokens(c)
  \/ \E c \in Calls : generateStep(c)
  \/ \E c \in Calls : callbackCancelled(c)
  \/ \E c \in Calls : decodeToken(c)
  \/ \E c \in Calls : release(c)
  \/ \E c \in Calls : Recv(c)
  \/ \E c \in Calls : Close(c)

NextTerminal ==
  \/ \E c \in Calls : TerminalTranslate(c)
  \/ \E c \in Calls : Output(c)
  \/ \E c \in Calls : TerminalTranslateStream(c)
  \/ \E c \in Calls : ProcWrite(c)
  \/ \E c \in Calls : ProcExit(c)
  \/ \E c \in Calls : CommandContext(c)
  \/ \E c \in Calls : WithTimeout(c)
  \/ \E c \in Calls : Reader(c)
  \/ \E c \in Calls : streamRawOutput(c)
  \/ \E c \in Calls : streamClaudeCodeOutput(c)
  \/ \E c \in Calls : gracefulShutdown(c)
  \/ \E c \in Calls : cmdWait(c)

NextOllama ==
  \/ \E c \in Calls : OllamaTranslate(c)
  \/ \E c \in Calls : OllamaTranslateStream(c)
  \/ \E c \in Calls : GenerateChunk(c)
  \/ \E c \in Calls : GenerateReturn(c)

Next == NextYzma \/ NextTerminal \/ NextOllama

Spec == Init /\ [][Next]_vars

SpecConc == InitConc /\ [][NextYzma]_vars

\* Every engine, with NCalls concurrent calls on the Yzma instance.
InitFair ==
  /\ engine \in Engines
  /\ active = (IF engine = "yzma" THEN Calls ELSE {1})
  /\ InitInstance

\* The steps of call c that the runtime takes whenever they stay possible: its
\* goroutines are scheduled, the consumer ranges over the channel, the timer of
\* context.WithTimeout fires, the os/exec watcher kills on ctx.Done(), and
\* client.Generate returns.  The caller's cancellation and the subprocess's own
\* writes and exit are not among them.
WorkerSteps(c) ==
  \/ Initialize(c) \/ acquireModel(c) \/ generateTokens(c) \/ generateStep(c)
  \/ callbackCancelled(c) \/ decodeToken(c) \/ release(c)
  \/ Close(c)
  \/ Output(c) \/ CommandContext(c) \/ WithTimeout(c) \/ Reader(c)
  \/ streamRawOutput(c) \/ streamClaudeCodeOutput(c) \/ gracefulShutdown(c) \/ cmdWait(c)
  \/ GenerateReturn(c)

Progress(c) == WorkerSteps(c) \/ Recv(c)

\* Concurrent requests on one TerminalEngine built by any constructor and options.
InitArgs ==
  /\ engine = "terminal"
  /\ active = Calls
  /\ \E e \in Constructed :
       /\ name = e.name
       /\ config = e.config
       /\ argsCap = e.cap
  /\ InitCalls
  /\ InitNoConfig

NextArgs ==
  \/ \E c \in Calls : TerminalRequest(c)
  \/ \E c \in Calls : buildArgsCall(c)
  \/ \E c \in Calls : execCommand(c)
  \/ \E c \in Calls : selectStrategy(c)

SpecArgs == InitArgs /\ [][NextArgs]_vars

\* The same for the TerminalEngine of the older engine package.
InitLegacy ==
  /\ engine = "terminal"
  /\ active = Calls
  /\ \E e \in ConstructedLegacy :
       /\ name = e.name
       /\ config = e.config
       /\ argsCap = e.cap
  /\ InitCalls
  /\ InitNoConfig

NextLegacy ==
  \/ \E c \in Calls : LegacyRequest(c)
  \/ \E c \in Calls : LegacyAppend(c)
  \/ \E c \in Calls : LegacyCommand(c)

SpecLegacy == InitLegacy /\ [][NextLegacy]_vars

\* ------------------------------------------------------------------ Config
\* The *Config a method is called on: the live one or the one Snapshot returned.
Receivers == {"live", "snapshot"}
Receiver(o) == IF o = "live" THEN cfg ELSE snap
Store(o, c) ==
  IF o = "live" THEN cfg' = c /\ UNCHANGED snap
                ELSE snap' = c /\ UNCHANGED cfg

\* Arguments given to the setters: the constants and unrecognized values.
EngineInputs == EngineTypes \cup {"", "Internal"}
AgentInputs == TerminalAgentTypes \cup {"", "claude"}

\* Variant of SetEngineType that stores the value it is given.
SetEngineType_Unvalidated(o, engineType) ==
  /\ Receiver(o) # <<>>
  /\ Store(o, [Receiver(o) EXCEPT !.Engine.Type = engineType])
  /\ UNCHANGED <<heap, disk, rpc, engineVars>>

\* Config.SetEngineType, from c.mu.Lock() to the deferred Unlock.
SetEngineType(o, engineType) ==
  /\ Receiver(o) # <<>>
  /\ Store(o, [Receiver(o) EXCEPT !.Engine.Type =
                  IF engineType \in EngineTypes THEN engineType ELSE EngineInternal])
  /\ UNCHANGED <<heap, disk, rpc, engineVars>>

\* Config.SetTerminalAgent.
SetTerminalAgent(o, agent) ==
  /\ Receiver(o) # <<>>
  /\ Store(o, [Receiver(o) EXCEPT !.Engine.TerminalAgent.Selected =
                  IF agent \in TerminalAgentTypes THEN agent ELSE AgentClaudeCode])
  /\ UNCHANGED <<heap, disk, rpc, engineVars>>

\* Config.GetSelectedTerminalAgent.
GetSelectedTerminalAgent(c) ==
  CASE c.Engine.TerminalAgent.Selected = AgentClaudeCode -> c.Engine.TerminalAgent.ClaudeCode
    [] c.Engine.TerminalAgent.Selected = "gemini-cli" -> c.Engine.TerminalAgent.GeminiCLI
    [] c.Engine.TerminalAgent.Selected = "codex" -> c.Engine.TerminalAgent.Codex
    [] OTHER -> c.Engine.TerminalAgent.ClaudeCode

\* Variant of Snapshot that copies the struct and keeps its slices.
Snapshot_Shallow ==
  /\ snap' = cfg
  /\ UNCHANGED <<cfg, heap, disk, rpc, engineVars>>

\* Config.Snapshot, under the read lock.
Snapshot ==
  /\ snap' = DeepCopy(cfg, Arrays(cfg))
  /\ heap' = CopiedHeap(cfg, snap', Arrays(cfg))
  /\ UNCHANGED <<cfg, disk, rpc, engineVars>>

\* Config.Restore(snapshot) with a non-nil snapshot.
Restore ==
  /\ snap # <<>>
  /\ cfg' = DeepCopy(snap, Arrays(snap))
  /\ heap' = CopiedHeap(snap, cfg', Arrays(snap))
  /\ UNCHANGED <<snap, disk, rpc, engineVars>>

\* The holder of the snapshot assigns to an element of one of its Args slices.
MutateSnapshot(a, k, v) ==
  /\ snap # <<>>
  /\ LET p == snap.Engine.TerminalAgent[a].Args
     IN  /\ p # 0 /\ k \in 1..Len(heap[p])
         /\ heap' = [heap EXCEPT ![p][k] = v]
  /\ UNCHANGED <<cfg, snap, disk, rpc, engineVars>>

\* Config.Reset up to c.mu.Unlock(): the three fields take their defaults.
Reset ==
  /\ rpc = "idle"
  /\ cfg' = Default
  /\ heap' = [p \in Addrs |-> IF snap # <<>> /\ p \in Arrays(snap) THEN heap[p] ELSE <<>>]
  /\ rpc' = "save"
  /\ UNCHANGED <<snap, disk, engineVars>>

\* The c.Save() that ends Reset, under the read lock: MkdirAll or WriteFile
\* fails, or the file takes the marshalled Config.
Save ==
  /\ rpc = "save"
  /\ \/ /\ rpc' = "failed"
        /\ UNCHANGED disk
     \/ /\ disk' = <<Deref(cfg, heap)>>
        /\ rpc' = "done"
  /\ UNCHANGED <<cfg, snap, heap, engineVars>>

\* The Args a config file gives each agent, and where Load puts them.
LoadedArgs ==
  [ClaudeCode |-> <<"--model">>, GeminiCLI |-> <<"-y">>, Codex |-> <<"exec", "-q">>]
Home == [ClaudeCode |-> 1, GeminiCLI |-> 2, Codex |-> 3]

\* Load(): the defaults when there is no file, else the defaults overlaid with
\* the file, here one that sets the Args of some agents.  No engine is in use.
InitConfig ==
  /\ engine = "yzma" /\ active = {} /\ name = ""
  /\ config = ZeroConfig /\ argsCap = 0
  /\ InitCalls
  /\ \E set \in SUBSET Agents :
       /\ cfg = WithArgs(Default, [a \in Agents |-> IF a \in set THEN Home[a] ELSE 0])
       /\ heap = [p \in Addrs |->
                    IF \E a \in set : Home[a] = p
                      THEN LoadedArgs[CHOOSE a \in set : Home[a] = p] ELSE <<>>]
       /\ disk = (IF set = {} THEN <<>> ELSE <<Deref(cfg, heap)>>)
  /\ snap = <<>>
  /\ rpc = "idle"

NextConfig ==
  \/ \E o \in Receivers, e \in EngineInputs : SetEngineType(o, e)
  \/ \E o \in Receivers, a \in AgentInputs : SetTerminalAgent(o, a)
  \/ Snapshot
  \/ Restore
  \/ \E a \in Agents, k \in 1..2 : MutateSnapshot(a, k, "x")

\* Setters, Snapshot and Restore on the live Config and on its snapshot.
SpecConfig == InitConfig /\ [][NextConfig]_vars

NextReset ==
  \/ \E o \in Receivers, e \in EngineInputs : SetEngineType(o, e)
  \/ \E o \in Receivers, a \in AgentInputs : SetTerminalAgent(o, a)
  \/ Reset
  \/ Save

\* One goroutine in Config.Reset while others call setters.
SpecReset == InitConfig /\ [][NextReset]_vars

\* Calls and Close calls on one instance, in any interleaving.
SpecLife == InitFair /\ [][Next \/ NextClose]_vars

FairSpec == InitFair /\ [][Next]_vars /\ \A c \in Calls : WF_vars(Progress(c))

\* Concurrent Yzma calls whose workers are scheduled while their consumers may
\* stop receiving at any point: no fairness on Recv.
SpecAbandoned == InitConc /\ [][NextYzma]_vars /\ \A c \in Calls : WF_vars(WorkerSteps(c))

\* ================================================================ claims
Last(q) == q[Len(q)]
Terminals(q) == {k \in 1..Len(q) : Terminal(q[k])}
Streams == {c \in Calls : op[c] = "TranslateStream" /\ ret[c].chan}
Sending(c) == pc[c] \in {"send", "cbsend"}
EmptyDone == Response("", TRUE, "")
TimedOut == ErrorResponse("translation timed out")

\* C1: in every engine, the channel returned by a TranslateStream call whose
\* consumer keeps receiving is closed exactly once on every exit path: it is
\* never closed twice, and once returned it is eventually closed.
C1_ClosedExactlyOnce ==
  \A c \in Calls :
    /\ [](closed[c] <= 1)
    /\ (ret[c].chan ~> closed[c] = 1)

\* A structured-agent stream whose subprocess ended without a result event: the
\* worker spun on the closed line channel until the timeout, then closed.
C1_Witness ==
  \E c \in Streams :
    /\ engine = "terminal" /\ closed[c] = 1
    /\ {"spun", "sawCancel"} \subseteq did[c]

C3_TerminalBeforeClose ==
  \A c \in Streams :
    closed[c] >= 1 => Len(out[c]) >= 1 /\ Terminal(Last(out[c]))

\* Positions inside generateTokens (decode entry to decode exit).
InDecode == {"gen", "loop", "cbsend", "decode"}

\* C4: on one Yzma instance at most one call is inside generateTokens at any
\* time, under any interleaving of concurrent Translate and TranslateStream calls.
C4_NoDecodeOverlap ==
  Cardinality({c \in Calls : pc[c] \in InDecode}) <= 1

\* One call is in its decode loop while another call waits parked on the gate.
C4_Witness ==
  \E c, w \in Calls :
    /\ c # w /\ pc[c] \in {"loop", "decode", "cbsend"} /\ pc[w] = "acquireWait"

\* The call holds the gate: between its acquisition and its release.
Holding(c) ==
  \/ pc[c] \in InDecode \cup {"release"}
  \/ pc[c] = "send" /\ nxt[c] = "release"

\* C5: every Yzma call acquires the gate before decoding and releases it exactly
\* once on every exit path; the gate never holds more than one token, it holds
\* one exactly while a call is between acquisition and release, and a call that
\* has returned or closed its channel holds nothing.
C5_GateDiscipline ==
  /\ inUse \in {0, 1}
  /\ inUse = Cardinality({c \in Calls : Holding(c)})
  /\ \A c \in Calls :
       /\ Holding(c) => "acquire" \in did[c] /\ "release" \notin did[c]
       /\ did[c] \cap {"ctx", "prompt", "sample"} # {} => "acquire" \in did[c]
       /\ pc[c] \in {"close", "done"} => ("acquire" \in did[c] <=> "release" \in did[c])

\* Calls that left the decode loop by each exit path have all released the gate:
\* here a stream that ended on a decode error after the other call had finished.
C5_Witness ==
  \E c, w \in Calls :
    /\ c # w /\ pc[c] = "done" /\ pc[w] = "done"
    /\ "release" \in did[c] /\ "release" \in did[w]
    /\ op[c] = "TranslateStream" /\ Len(out[c]) >= 1
    /\ Last(out[c]).Error = "yzma error: decode failed"
    /\ inUse = 0

\* C6: Translate and TranslateStream called with empty Request.Text yield exactly
\* one terminal Response with empty text and no error and never engage the
\* backend (no model load, no gate acquisition, no process spawn, no HTTP request).
C6_EmptyFastPath ==
  \A c \in Calls :
    (op[c] # "" /\ text[c] = "") =>
      /\ did[c] \cap {"load", "acquire", "spawn", "http"} = {}
      /\ pc[c] = "done" =>
           IF op[c] = "Translate"
             THEN ret[c] = RetValue(EmptyDone, "")
             ELSE ret[c].chan /\ out[c] = <<EmptyDone>>

\* An error text that tells the caller of a timeout or a cancellation.
TimeoutFlavored(r) ==
  \/ r.Error = "translation timed out"
  \/ \E e \in CtxErrs :
       r.Error \in {"yzma error: " \o e, "ollama error: " \o e,
                    "yzma error: failed to acquire model: " \o e}

\* C7: a TranslateStream worker that finds its context cancelled while the call
\* is in progress ends the stream with a terminal Response carrying a
\* timeout-flavored error.
C7_CancelGivesTimeout ==
  \A c \in Streams :
    ("sawCancel" \in did[c] /\ closed[c] >= 1) =>
      /\ Len(out[c]) >= 1
      /\ TimeoutFlavored(Last(out[c]))

\* C8: a Yzma call whose context was cancelled before it acquired the gate does
\* not acquire it and performs no decode: no inference context, no prompt batch,
\* no sampled token.
C8_CancelledNeverDecodes ==
  \A c \in Calls :
    "lateAcquire" \in did[c] => did[c] \cap {"ctx", "prompt", "sample"} = {}

\* C9: when the request context expires after the subprocess was started, while
\* the stream is still being relayed, and the process is killed for it, exactly
\* one terminal Response is emitted and it carries an error (the timeout error,
\* unless a pipe read error was reported first); and a started subprocess is
\* reaped before the channel is closed.
C9_TimeoutOnceAndReaped ==
  \A c \in Streams :
    (engine = "terminal" /\ "spawn" \in did[c] /\ closed[c] >= 1) =>
      /\ "reaped" \in did[c] /\ proc[c] # "running"
      /\ ("expired" \in did[c] /\ proc[c] = "signaled") =>
           /\ Cardinality(Terminals(out[c])) = 1
           /\ Last(out[c]).Error # ""

\* C10: a process-engine stream whose subprocess runs past the timeout ends with
\* the timeout error, and one whose subprocess exits non-zero (with the context
\* still live) ends with a process error that is not the timeout error.
C10_TimeoutVsProcessError ==
  \A c \in Streams :
    (engine = "terminal" /\ "spawn" \in did[c] /\ closed[c] >= 1) =>
      /\ (proc[c] = "exit1" /\ ctxErr[c] = "") =>
           /\ Last(out[c]).Error # ""
           /\ Last(out[c]) # TimedOut
      /\ (proc[c] = "signaled" /\ "expired" \in did[c]) => Last(out[c]) = TimedOut

\* The concatenated Text of a sequence of Responses.
RECURSIVE ConcatText(_)
ConcatText(q) ==
  IF q = <<>> THEN "" ELSE Head(q).Text \o ConcatText(Tail(q))

\* Everything the backend produced for call c: the bytes of stdout, or the
\* response fields of the server's chunks.
WholeOutput(c) ==
  IF engine = "terminal" THEN Concat(wrote[c]) ELSE ConcatText(wrote[c])

\* The finished blocking calls of the process and the remote engine.
BlockingDone ==
  {c \in Calls : /\ engine \in {"terminal", "ollama"}
                 /\ op[c] = "Translate" /\ pc[c] = "done" /\ text[c] # ""}

\* C11: the blocking Translate of the process engine and of the remote engine
\* returns the timeout error exactly when it failed with its deadline exceeded,
\* a generic engine error of another text for every other failure, and on
\* success one Response with Done = true holding the whole (trimmed) output.
C11_BlockingErrors ==
  \A c \in BlockingDone :
    LET e == ret[c].err
        generic == IF engine = "terminal" THEN "terminal agent error: " ELSE "ollama error: "
    IN  /\ e = "translation timed out" => ctxErr[c] = DeadlineExceeded
        /\ (e # "" /\ ctxErr[c] = DeadlineExceeded) => e = "translation timed out"
        /\ (e # "" /\ ctxErr[c] # DeadlineExceeded) => HasPrefix(e, generic)
        /\ e # "" => ret[c].resp = ZeroResponse
        /\ e = "" => ret[c].resp = Response(TrimSpace(WholeOutput(c)), TRUE, "")

\* A blocking process call whose subprocess was killed at the deadline and that
\* returned the timeout error.
C11_Witness ==
  \E c \in BlockingDone :
    /\ engine = "terminal" /\ proc[c] = "signaled"
    /\ ctxErr[c] = DeadlineExceeded
    /\ ret[c].err = "translation timed out"

\* C12: no failure crosses the engine boundary as a returned error: every
\* Translate and TranslateStream call returns a nil error, failures being
\* carried by a terminal Response's Error field.
C12_NoReturnedError ==
  \A c \in Calls : ret[c].err = ""

\* The non-terminal Responses of a sequence, in order.
NonTerminal(q) == SelectSeq(q, LAMBDA r : ~Terminal(r))

\* The text a consumer of the stream ends up with: the last non-terminal Text for
\* the cumulative structured strategy, the concatenation of the Texts otherwise
\* (a server chunk flagged done may carry text of its own, which is counted).
StreamText(c) ==
  LET q == NonTerminal(out[c])
  IN  IF engine = "terminal" /\ isClaudeCode
        THEN IF q = <<>> THEN "" ELSE Last(q).Text
        ELSE ConcatText(out[c])

\* The Text the blocking Translate returns for the same backend output.
TranslateText(c) == TrimSpace(WholeOutput(c))

\* The streams that ran to a successful end against a backend that succeeded.
Succeeded ==
  {c \in Streams : /\ closed[c] = 1 /\ text[c] # ""
                   /\ Len(out[c]) >= 1 /\ Last(out[c]).Done /\ Last(out[c]).Error = ""
                   /\ engine = "terminal" => proc[c] = "exit0"}

\* C13: for the process and the remote engine the text obtained from a
\* successful TranslateStream equals the Text the blocking Translate returns
\* for the same backend output.
C13_StreamEqualsBlocking ==
  \A c \in Succeeded :
    engine \in {"terminal", "ollama"} => StreamText(c) = TranslateText(c)

\* The Texts of a sequence of Responses.
Texts(q) == [k \in 1..Len(q) |-> q[k].Text]

IsPrefix(p, q) == Len(p) <= Len(q) /\ SubSeq(q, 1, Len(p)) = p

RECURSIVE IsSubseq(_, _)
IsSubseq(p, q) ==
  IF p = <<>> THEN TRUE
  ELSE IF q = <<>> THEN FALSE
  ELSE IF Head(p) = Head(q) THEN IsSubseq(Tail(p), Tail(q))
  ELSE IsSubseq(p, Tail(q))

\* The delta texts carried by a sequence of stdout lines, in order.
Deltas(lines) ==
  LET d == SelectSeq(lines, LAMBDA ev :
             /\ ev.ok /\ ev.Type = "stream_event" /\ ev.EventType = "content_block_delta"
             /\ ev.DeltaType = "text_delta" /\ ev.DeltaText # "")
  IN  [k \in 1..Len(d) |-> d[k].DeltaText]

RECURSIVE ConcatStrings(_)
ConcatStrings(q) == IF q = <<>> THEN "" ELSE Head(q) \o ConcatStrings(Tail(q))

\* The running concatenations of a sequence of strings: a, ab, abc, ...
Cumulative(q) == [k \in 1..Len(q) |-> ConcatStrings(SubSeq(q, 1, k))]

\* The texts of the pieces the decoder can sample, in sampling order.
AllPieces == [k \in 1..MaxTokens |-> TokenToPiece(k - 1)]

C15_CloseIdempotent ==
  /\ \A k \in 1..Len(closeRet) : closeRet[k] = ""
  /\ frees + (IF model # 0 THEN 1 ELSE 0) = loads
  /\ initialized <=> model # 0
  /\ engine # "yzma" => frees = 0 /\ loads = 0 /\ model = 0

\* MaxCloses Close calls on a Yzma instance that loaded its model once: one of
\* them freed the handle, the others found none.
C15_Witness ==
  /\ engine = "yzma" /\ Len(closeRet) = MaxCloses
  /\ loads = 1 /\ frees = 1 /\ model = 0

\* C16: on context expiry in the process engine's streaming mode the subprocess
\* is force-killed only by gracefulShutdown's grace timer, after the graceful
\* termination signal: a killed subprocess has been sent SIGTERM first and was
\* killed by the timer branch.
C16_GracefulBeforeKill ==
  \A c \in Streams :
    engine = "terminal" =>
      /\ "kill" \in did[c] => "sigterm" \in did[c]
      /\ proc[c] = "signaled" => {"sigterm", "kill"} \subseteq did[c]

\* The units of call c that the coordinator has taken from the reader.
Consumed(c) == SubSeq(wrote[c], 1, Len(wrote[c]) - Len(pipe[c]) - Len(rdVal[c]))

\* The non-terminal Texts the worker has passed to the channel: those received
\* and the one it is sending.
Emitted(c) ==
  Texts(NonTerminal(out[c]))
    \o (IF pc[c] = "send" /\ ~Terminal(msg[c]) THEN <<msg[c].Text>> ELSE <<>>)

StructuredStreams ==
  {c \in Streams : engine = "terminal" /\ isClaudeCode /\ text[c] # ""}

C18_ResultEndsAtOnce ==
  \A c \in StructuredStreams :
    pc[c] = "waitResult" => ENABLED cmdWait(c)

RawStreams ==
  {c \in Streams : engine = "terminal" /\ ~isClaudeCode /\ text[c] # ""}

\* The worker of call c is sending, or the consumer has received, the terminal
\* Response of a clean end: Done = true, no error.
EndedClean(c) ==
  \/ pc[c] = "send" /\ msg[c] = Response("", TRUE, "")
  \/ out[c] # <<>> /\ Last(out[c]) = Response("", TRUE, "")

BlockedSend(c) == pc[c] \in {"send", "cbsend"} /\ ctxErr[c] # ""

\* C20: a worker blocked sending a Response to a consumer that no longer
\* receives can still move on once the context is cancelled or past its
\* deadline: some step of the call other than the consumer's receive takes the
\* worker out of the send.
C20_BlockedSendObservesCancel ==
  \A c \in Streams :
    BlockedSend(c) => ENABLED (WorkerSteps(c) /\ pc'[c] # pc[c])

\* The call has passed Initialize and uses the handle e.model.
UsesModel(c) == pc[c] \in InDecode

\* C21: with concurrent calls on one Yzma instance and no Close, the model is
\* loaded at most once: once the instance is initialized no Initialize loads
\* again or changes the handle, and every call that decodes sees the one handle
\* of that load.
C21_LoadedOnce ==
  /\ [](/\ loads <= 1
        /\ initialized <=> model # 0
        /\ model = loads
        /\ \A c \in Calls : UsesModel(c) => initialized /\ model = 1)
  /\ [][initialized => initialized' /\ loads' = loads /\ model' = model]_vars

\* Both calls went through Initialize, one loaded and the other returned without
\* loading, and the second one has started decoding on the loaded handle.
C21_Witness ==
  \E c, w \in Calls :
    /\ c # w /\ loads = 1 /\ model = 1
    /\ "load" \in did[c] /\ "load" \notin did[w]
    /\ "ctx" \in did[c] /\ "ctx" \in did[w]

\* What a call returns when its Initialize failed.
InitializationError == Errorf("yzma error: ", "load failed")

\* The instance is Uninitialized.
Uninitialized == ~initialized /\ model = 0

\* C22: a Yzma call whose initialization fails returns the initialization error
\* (and no channel); the failing step leaves the instance Uninitialized and the
\* gate as it was, the failed call never takes the gate, and while the instance
\* is Uninitialized a call that reaches Initialize can load the model.
C22_InitFailureRetry ==
  /\ [](\A c \in Calls :
          /\ ret[c].err = InitializationError =>
                /\ ~ret[c].chan /\ ret[c].resp = ZeroResponse /\ pc[c] = "done"
                /\ did[c] = {"load"}
          /\ (pc[c] = "init" /\ Uninitialized /\ mu = 0) =>
                ENABLED (Initialize(c) /\ initialized' /\ loads' = loads + 1))
  /\ [][\A c \in Calls :
          (ret'[c].err = InitializationError /\ ret[c] # ret'[c]) =>
             /\ Uninitialized /\ Uninitialized'
             /\ UNCHANGED <<inUse, loads, mu>>]_vars

\* One call failed to initialize; the other call then loaded the model and
\* finished its translation.
C22_Witness ==
  \E c, w \in Calls :
    /\ c # w /\ ret[c].err = InitializationError
    /\ "load" \in did[w] /\ loads = 1 /\ initialized
    /\ pc[w] = "done" /\ "sample" \in did[w]
    /\ (ret[w].chan \/ ret[w].err = "")

\* What a Yzma call reports when llama.Decode failed inside generateTokens.
DecodeError == Errorf("yzma error: ", "decode failed")

\* C23: when Yzma decoding fails, the blocking Translate returns the error with
\* the text accumulated so far as a Done Response if any fragment was produced
\* and with the empty Response otherwise; a streaming call keeps the fragments
\* already delivered, in order, and ends with exactly one error Response.
C23_PartialOnDecodeError ==
  /\ [](\A c \in Calls :
          /\ ret[c].err = DecodeError =>
                \/ ret[c].resp = ZeroResponse
                \/ ret[c].resp.Text # "" /\ ret[c].resp = Response(ret[c].resp.Text, TRUE, "")
          /\ \A k \in 1..Len(out[c]) :
                out[c][k].Error = DecodeError =>
                  /\ k = Len(out[c]) /\ ~Sending(c)
                  /\ out[c][k] = ErrorResponse(DecodeError)
                  /\ \A j \in 1..(k - 1) : ~Terminal(out[c][j])
                  /\ IsSubseq(Texts(SubSeq(out[c], 1, k - 1)), AllPieces))
  /\ [][\A c \in Calls :
          (ret'[c].err = DecodeError /\ ret[c] # ret'[c]) =>
             ret'[c].resp = (IF result[c] # "" THEN Response(result[c], TRUE, "")
                                              ELSE ZeroResponse)]_vars

\* A blocking call returned partial text with the decode error, and a streaming
\* call delivered a fragment and then ended with the error Response.
C23_Witness ==
  \E c, w \in Calls :
    /\ op[c] = "Translate" /\ ret[c].err = DecodeError
    /\ ret[c].resp = Response(TokenToPiece(0), TRUE, "")
    /\ w \in Streams /\ closed[w] = 1
    /\ out[w] = <<Response(TokenToPiece(0), FALSE, ""), ErrorResponse(DecodeError)>>

\* The remote engine's streams that reached client.Generate.
OllamaStreams == {c \in Streams : engine = "ollama" /\ text[c] # ""}

\* The chunks relayed so far: the Responses received that carry no error.
Relayed(c) == SelectSeq(out[c], LAMBDA r : r.Error = "")

Sampled(c) == pc[c] \in {"cbsend", "decode"}

\* The fragments a Yzma stream has delivered.
Fragments(c) == NonTerminal(out[c])

\* C27: the Yzma decode loop takes at most MaxTokens sampling steps and delivers
\* at most MaxTokens fragments; a sampling step is taken only when the context
\* was not done at the top of the iteration; and a loop that ends on the
\* end-of-sequence token or after MaxTokens iterations ends the call with a
\* terminal result without error that carries no further fragment.
C27_BoundedDecodeLoop ==
  /\ [](\A c \in Calls :
          engine = "yzma" =>
            /\ i[c] <= MaxTokens
            /\ Sampled(c) => i[c] < MaxTokens
            /\ Len(Fragments(c)) <= MaxTokens
            /\ pc[c] = "loop" => Len(Fragments(c)) <= i[c]
            /\ Sampled(c) => Len(Fragments(c)) <= i[c] + 1)
  /\ [][\A c \in Calls :
          pc[c] = "loop" =>
            /\ pc'[c] \in {"cbsend", "decode"} => ctxErr[c] = "" /\ i[c] < MaxTokens
            /\ (i[c] < MaxTokens /\ ctxErr[c] # "") =>
                  /\ out'[c] = out[c]
                  /\ IF op[c] = "Translate"
                       THEN ret'[c].err = Errorf("yzma error: ", ctxErr[c])
                       ELSE pc'[c] = "send" /\ msg'[c] = ErrorResponsef("yzma error: ", ctxErr[c])
            /\ (pc'[c] \notin {"loop", "decode", "cbsend"}
                   /\ (i[c] >= MaxTokens \/ ctxErr[c] = "")) =>
                  /\ out'[c] = out[c]
                  /\ IF op[c] = "Translate"
                       THEN ret'[c] = RetValue(Response(result[c], TRUE, ""), "")
                       ELSE pc'[c] = "send" /\ msg'[c] = EmptyDone]_vars

\* A stream that delivered MaxTokens fragments and then the terminal Response
\* without error: the loop ran out of iterations.
C27_Witness ==
  \E c \in Streams :
    /\ engine = "yzma" /\ closed[c] = 1
    /\ Len(out[c]) = MaxTokens + 1
    /\ Texts(Fragments(c)) = AllPieces
    /\ Last(out[c]) = EmptyDone

\* The call is between its Initialize and the end of its decode loop.
BetweenInitAndDecodeEnd(c) ==
  engine = "yzma" /\ pc[c] \in {"acquire", "acquireWait"} \cup InDecode

\* C30: while a Yzma call is between its Initialize and the end of its decode
\* loop the instance holds the loaded handle: Close has not freed or cleared
\* it, so no decode step runs against a freed handle.
C30_NoCloseDuringCall ==
  \A c \in Calls : BetweenInitAndDecodeEnd(c) => model # 0 /\ initialized

\* The tokens of a request's template.
TokensOf(p) == CHOOSE t \in Templates : Join(t) = p

\* The literal value that stands for a template token in request r.
Value(tok, r) ==
  IF tok = "{{text}}" THEN r.Text
  ELSE IF tok = "{{source_lang}}" THEN r.SourceLang
  ELSE IF tok = "{{target_lang}}" THEN r.TargetLang
  ELSE tok

\* The template with each placeholder token replaced by its literal value once.
Substituted(r) ==
  LET t == TokensOf(r.Prompt)
  IN  Join([k \in 1..Len(t) |-> Value(t[k], r)])

C25_NoCrossRequestSharing ==
  \A c \in Calls :
    argv[c] # <<>> =>
      /\ argv[c][1] = config.Command
      /\ SubSeq(argv[c], 2, Len(config.Args) + 1) = config.Args
      /\ Last(argv[c]) = prompt[c]
      /\ \A k \in (Len(config.Args) + 2)..(Len(argv[c]) - 1) :
           argv[c][k] \in {"--system-prompt", req[c].SystemPrompt}

\* The call has built its prompt.
PromptBuilt(c) == req[c] # <<>> /\ req[c].Text # ""

\* C28: BuildPrompt replaces every occurrence of the three placeholders of the
\* template by the literal values in one pass: a placeholder inside a
\* substituted value stays literal, a template without placeholders comes back
\* unchanged, and equal inputs give equal output.
C28_SinglePassSubstitution ==
  \A c \in Calls :
    PromptBuilt(c) =>
      /\ prompt[c] = Substituted(req[c])
      /\ (\A k \in 1..Len(TokensOf(req[c].Prompt)) :
             TokensOf(req[c].Prompt)[k] \notin Placeholders) => prompt[c] = req[c].Prompt
      /\ \A w \in Calls : (PromptBuilt(w) /\ req[w] = req[c]) => prompt[w] = prompt[c]

\* C29: the decoding strategy of a TerminalEngine follows from the name given at
\* construction alone: every streaming call of the instance selects the
\* structured strategy if the name is Claude Code's and the raw one otherwise,
\* whatever command, arguments and timeout the options set and whatever the
\* request holds, and no request changes the name or the configuration.
C29_StrategyByIdentity ==
  /\ [](\A c \in Calls :
          strategy[c] # "" =>
            /\ strategy[c] = (IF name = TerminalClaudeCode THEN "structured" ELSE "raw")
            /\ \A w \in Calls : strategy[w] # "" => strategy[w] = strategy[c])
  /\ [][name' = name /\ config' = config]_vars

\* An engine named claude-code whose command and arguments were replaced by
\* options: two streaming calls with different requests both decode structured.
C29_Witness ==
  \E c, w \in Calls :
    /\ name = TerminalClaudeCode /\ config.Command = "gemini"
    /\ config.Args # predefinedEngines(TerminalClaudeCode).Args
    /\ req[c] # req[w]
    /\ strategy[c] = "structured" /\ strategy[w] = "structured"

\* C31: a Yzma TranslateStream call that holds the gate with its context
\* cancelled eventually releases the gate, whether or not its consumer still
\* receives from the channel.
C31_CancelledStreamReleases ==
  \A c \in Calls :
    (op[c] = "TranslateStream" /\ ctxErr[c] # "" /\ Holding(c)) ~> ~Holding(c)

\* The coordinator of a structured stream is at its select with lineCh closed:
\* stdout ended with no final-result event consumed and no read error.
AtEndOfStream(c) ==
  c \in StructuredStreams /\ pc[c] = "select" /\ rd[c] = "done"

\* The coordinator has received from the closed lineCh at least once.
Spun(c) == c \in StructuredStreams /\ "spun" \in did[c]

\* C32: in the structured strategy, when stdout ends without a final-result
\* event and without a read error, the coordinator emits nothing at that point:
\* while the context is live every step leaves it at its select with nothing
\* sent; it leaves the loop only once the context is done, the only terminal
\* Response it sends is the timeout error, and with a consumer that keeps
\* receiving the call ends with that Response as its last.
C32_EndOfStreamSpins ==
  /\ [](\A c \in Calls :
          Spun(c) =>
            /\ pc[c] # "select" => ctxErr[c] # ""
            /\ \A k \in Terminals(out[c]) : out[c][k] = TimedOut
            /\ pc[c] = "send" => msg[c] = TimedOut
            /\ pc[c] \in {"close", "done"} => out[c] # <<>> /\ Last(out[c]) = TimedOut)
  /\ [][\A c \in Calls :
          (AtEndOfStream(c) /\ ctxErr[c] = "") =>
            /\ pc'[c] = "select" /\ out'[c] = out[c] /\ closed'[c] = closed[c]
            /\ rd'[c] = "done"]_vars
  /\ \A c \in Calls :
       AtEndOfStream(c) ~>
         (pc[c] = "done" /\ ctxErr[c] # "" /\ out[c] # <<>> /\ Last(out[c]) = TimedOut)

\* A structured stream whose subprocess wrote one delta line and exited: the
\* coordinator received from the closed lineCh, the timer fired, and the stream
\* ended with the delta followed by the timeout error.
C32_Witness ==
  \E c \in Calls :
    /\ Spun(c) /\ pc[c] = "done" /\ closed[c] = 1
    /\ proc[c] = "exit0" /\ ctxErr[c] = DeadlineExceeded
    /\ wrote[c] = <<DeltaLine(Piece(0))>>
    /\ out[c] = <<Response(Piece(0), FALSE, ""), TimedOut>>

\* The coordinator of call c has returned: no receive from lineCh / readCh
\* follows.
CoordinatorReturned(c) ==
  \/ pc[c] \in {"waitEOF", "waitResult", "waitErr", "cmdWait", "close", "done"}
  \/ pc[c] = "send" /\ nxt[c] \in {"waitErr", "cmdWait", "close"}

\* The reader goroutine is suspended in a send on the internal channel.
ReaderSending(c) == rd[c] \in {"sendData", "sendErr"}

\* C33: the reader goroutine of a TerminalEngine stream is never left suspended
\* in a send on the internal channel after its coordinator has returned, on any
\* exit path of the coordinator.
C33_ReaderNeverStranded ==
  \A c \in Calls :
    (engine = "terminal" /\ CoordinatorReturned(c)) => ~ReaderSending(c)

\* C34: on one Yzma instance under any interleaving of calls and Close calls,
\* whenever the lock is free the initialized flag is set exactly when the stored
\* handle is non-zero; every Close leaves the instance Uninitialized; and a call
\* whose Initialize finds the instance Uninitialized attempts the load again,
\* a successful one storing a fresh handle.
C34_FlagTracksHandle ==
  /\ [](engine = "yzma" /\ mu = 0 => (initialized <=> model # 0))
  /\ [][(engine = "yzma" /\ closeRet' # closeRet) => Uninitialized']_vars
  /\ [][\A c \in Calls :
          (engine = "yzma" /\ pc[c] = "init" /\ pc'[c] # "init" /\ Uninitialized) =>
            /\ "load" \in did'[c]
            /\ \/ Uninitialized' /\ loads' = loads /\ pc'[c] = "done"
               \/ initialized' /\ loads' = loads + 1 /\ model' = loads']_vars

\* A call loaded the model, Close freed it, and a later call loaded it again.
C34_Witness ==
  \E c, w \in Calls :
    /\ engine = "yzma" /\ c # w
    /\ "load" \in did[c] /\ "load" \in did[w]
    /\ loads = 2 /\ frees = 1 /\ Len(closeRet) = 1
    /\ initialized /\ model = 2

\* Every Response call c has produced: received by the consumer, being sent,
\* or returned by the blocking method.
Produced(c) ==
  {out[c][k] : k \in 1..Len(out[c])}
    \cup (IF Sending(c) THEN {msg[c]} ELSE {})
    \cup (IF ret[c].returned /\ ~ret[c].chan THEN {ret[c].resp} ELSE {})

\* C38: every Response an engine produces with a non-empty Error has
\* Done = true and is the value ErrorResponse builds from that message.
C38_ErrorImpliesDone ==
  \A c \in Calls :
    \A r \in Produced(c) :
      r.Error # "" => r.Done /\ r = ErrorResponse(r.Error)

\* A stream whose consumer received a formatted error Response after a
\* non-terminal one.
C38_Witness ==
  \E c \in Streams :
    /\ Len(out[c]) = 2 /\ ~Terminal(out[c][1])
    /\ out[c][2] = ErrorResponsef("read error: ", "read failed")
    /\ pc[c] = "done"

\* The values of the live Config and of the snapshot, slices by their elements.
LiveValue == Deref(cfg, heap)
SnapValue == IF snap = <<>> THEN <<>> ELSE <<Deref(snap, heap)>>

\* C35: Snapshot returns a deep copy and Restore copies a snapshot back the
\* same way: the live Config and the snapshot never share a backing array, the
\* copy made has the value of its source, and no step (a setter on either
\* object, an assignment to an element of the snapshot's Args slices) changes
\* the value of both objects.
C35_SnapshotDeepCopy ==
  /\ [](snap # <<>> => Arrays(cfg) \cap Arrays(snap) = {})
  /\ [][LiveValue' = LiveValue \/ SnapValue' = SnapValue]_vars
  /\ [][Snapshot => SnapValue' = <<LiveValue>> /\ LiveValue' = LiveValue]_vars
  /\ [][Restore => <<LiveValue'>> = SnapValue /\ SnapValue' = SnapValue]_vars

\* The live Config was restored from a snapshot and set to another engine type;
\* then an element of the snapshot's Codex arguments was assigned: the live
\* Config still has the loaded arguments.
C35_Witness ==
  /\ snap # <<>>
  /\ cfg.Engine.TerminalAgent.Codex.Args \notin {0, Home.Codex}
  /\ LiveValue.Engine.TerminalAgent.Codex.Args.elems = LoadedArgs.Codex
  /\ SnapValue[1].Engine.TerminalAgent.Codex.Args.elems = <<"x", "-q">>
  /\ cfg.Engine.Type = "ollama" /\ snap.Engine.Type = EngineInternal

\* The receiver after the step.
After(o) == IF o = "live" THEN cfg' ELSE snap'

\* The step changes nothing but the receiver o, and in it nothing but Engine.Type
\* (TerminalAgent.Selected).
OnlyType(o) ==
  /\ [After(o) EXCEPT !.Engine.Type = ""] = [Receiver(o) EXCEPT !.Engine.Type = ""]
  /\ heap' = heap /\ (o = "live" => snap' = snap) /\ (o = "snapshot" => cfg' = cfg)
OnlySelected(o) ==
  /\ [After(o) EXCEPT !.Engine.TerminalAgent.Selected = ""] =
       [Receiver(o) EXCEPT !.Engine.TerminalAgent.Selected = ""]
  /\ heap' = heap /\ (o = "live" => snap' = snap) /\ (o = "snapshot" => cfg' = cfg)

\* C36: from a Config with the default selections, after any sequence of
\* SetEngineType and SetTerminalAgent calls with arbitrary arguments Engine.Type
\* is one of the three engine types and TerminalAgent.Selected one of the three
\* agents, GetSelectedTerminalAgent returning that agent's option; a setter
\* stores a recognized value as given and the default (internal, claude-code)
\* for any other, and changes no other field.
C36_SettersValidate ==
  /\ [](/\ cfg.Engine.Type \in EngineTypes
        /\ cfg.Engine.TerminalAgent.Selected \in TerminalAgentTypes
        /\ GetSelectedTerminalAgent(cfg).Executable =
             (CASE cfg.Engine.TerminalAgent.Selected = AgentClaudeCode -> "claude"
                [] cfg.Engine.TerminalAgent.Selected = "gemini-cli" -> "gemini"
                [] cfg.Engine.TerminalAgent.Selected = "codex" -> "codex"))
  /\ [][\A o \in Receivers, e \in EngineInputs :
          SetEngineType(o, e) =>
            /\ After(o).Engine.Type = (IF e \in EngineTypes THEN e ELSE EngineInternal)
            /\ OnlyType(o)]_vars
  /\ [][\A o \in Receivers, a \in AgentInputs :
          SetTerminalAgent(o, a) =>
            /\ After(o).Engine.TerminalAgent.Selected =
                 (IF a \in TerminalAgentTypes THEN a ELSE AgentClaudeCode)
            /\ OnlySelected(o)]_vars

\* The live Config was set to ollama and codex and a snapshot taken; setters
\* then brought the live Config back to internal and claude-code.
C36_Witness ==
  /\ snap # <<>>
  /\ snap.Engine.Type = "ollama" /\ snap.Engine.TerminalAgent.Selected = "codex"
  /\ cfg.Engine.Type = EngineInternal
  /\ cfg.Engine.TerminalAgent.Selected = AgentClaudeCode
  /\ GetSelectedTerminalAgent(snap).Executable = "codex"

\* C37: when Reset returns without error the persisted configuration equals
\* the defaults, also with setters called concurrently by other goroutines.
C37_ResetPersistsDefaults ==
  rpc = "done" => disk = <<Deref(Default, heap)>>

====
